---- MODULE Spec2Model ----
(***************************************************************************)
(* Model of the care_aware wellness application: the AI gateway and its    *)
(* rule-based fallbacks (openai_service.py), the weather collaborator, the *)
(* risk classifier and the alert generator (weather_service.py), and the   *)
(* in-memory lifestyle-log store with its HTTP handlers (models.py,        *)
(* health_api.py, auth.py).                                                *)
(*                                                                         *)
(* Python values are modelled as follows.  A dict is a record (a function  *)
(* on its keys), so "k in d" is  k \in DOMAIN d  and d.get(k, dflt) is Get.*)
(* A value whose Python type matters (the tips value of an AI response,    *)
(* the value a gateway function returns) is tagged: PyNone, PyStr, PyList. *)
(* A text that is scanned character by character (a chat message, the      *)
(* provider's weather text) is a sequence of one-character strings.        *)
(* Averages are kept as the pair (total, count) and compared with a        *)
(* threshold by cross-multiplication, which is exact.                      *)
(***************************************************************************)
EXTENDS Integers, Sequences, FiniteSets, TLC

VARIABLES
    \* ---- AI gateway (openai_service.py) ----
    openai_client,   \* TRUE iff OPENAI_API_KEY was set when the module was loaded
    pc,              \* position of the current gateway invocation
    op,              \* "none", "tips" (get_health_tips) or "chat" (chat_with_ai)
    args,            \* the arguments of the current invocation
    attempts,        \* calls of openai_client.chat.completions.create made by it
    completion,      \* how the external call ended, once it has
    result,          \* what the invocation gave its caller
    \* ---- weather collaborator and rules (weather_service.py) ----
    OPENWEATHER_API_KEY,  \* TRUE iff the provider credential is configured
    wcall,           \* the last weather_service call: function name and inputs
    wresult,         \* what that call gave its caller
    \* ---- store and handlers (models.py, health_api.py, auth.py) ----
    users_db,
    user_id_counter,
    lifestyle_logs_db,
    log_id_counter,
    session,
    request,         \* the last HTTP request handled
    response,        \* the response it was given
    profiles_db,
    \* ---- payments (payments.py, models.py) ----
    PAYSTACK_SECRET_KEY,  \* TRUE iff the payment gateway's secret key is configured
    payments_db,
    payment_id_counter,
    \* ---- request threads inside LifestyleLog.create (models.py) ----
    create_calls     \* per thread: its position in create and its locals

gatewayVars == <<openai_client, pc, op, args, attempts, completion, result>>
weatherVars == <<OPENWEATHER_API_KEY, wcall, wresult>>
storeVars == <<users_db, lifestyle_logs_db, log_id_counter, session, request, response>>
profileVars == <<profiles_db>>
paymentVars == <<PAYSTACK_SECRET_KEY, payments_db, payment_id_counter>>
threadVars == <<create_calls>>
registrationVars == <<user_id_counter>>
vars == <<gatewayVars, weatherVars, storeVars, profileVars, paymentVars, threadVars,
         registrationVars>>

----------------------------------------------------------------------------
(* Python values *)

EmptyDict == [k \in {} |-> 0]

Get(d, k, dflt) == IF k \in DOMAIN d THEN d[k] ELSE dflt

PyNone == [t |-> "None"]
PyStr(s) == [t |-> "str", s |-> s]
PyList(items) == [t |-> "list", items |-> items]

\* Python truthiness of the values the code tests with "if x" / "x or y".
Truthy(v) ==
    CASE v = PyNone -> FALSE
      [] v.t = "str" -> v.s # ""
      [] v.t = "list" -> v.items # <<>>
      [] OTHER -> TRUE

Min(a, b) == IF a < b THEN a ELSE b

\* s[:k] for k >= 0
Take(s, k) == SubSeq(s, 1, Min(k, Len(s)))

RECURSIVE SumField(_, _)
SumField(logs, f) ==
    IF logs = <<>> THEN 0 ELSE Head(logs)[f] + SumField(Tail(logs), f)

\* What a try body did: returned a value, or raised.
Returned(v) == [raised |-> FALSE, value |-> v]
Raised == [raised |-> TRUE]

----------------------------------------------------------------------------
(* openai_service.py: the rule-based tip generator *)

\* avg < k  and  avg > k  for avg = total / count, count > 0
AvgLess(total, count, k) == total < k * count
AvgGreater(total, count, k) == total > k * count

\* min(len(recent_logs), 7), the divisor of the three averages
WindowCount(recent_logs) == Min(Len(recent_logs), 7)

\* Mutant: the total runs over every supplied log, not over the first 7.
WindowTotalAllLogs(recent_logs, f) == SumField(recent_logs, f)

\* sum(log[f] for log in recent_logs[:7])
WindowTotal(recent_logs, f) == SumField(Take(recent_logs, 7), f)

SleepTips(recent_logs) ==
    IF recent_logs # <<>>
    THEN IF AvgLess(WindowTotal(recent_logs, "sleep_hours"), WindowCount(recent_logs), 7)
         THEN <<"Try to get 7-9 hours of sleep nightly">>
         ELSE IF AvgGreater(WindowTotal(recent_logs, "sleep_hours"), WindowCount(recent_logs), 9)
              THEN <<"Consider maintaining a consistent sleep schedule">>
              ELSE <<>>
    ELSE <<"Maintain a regular sleep schedule of 7-9 hours">>

ExerciseTips(recent_logs) ==
    IF recent_logs # <<>>
    THEN IF AvgLess(WindowTotal(recent_logs, "exercise_minutes"), WindowCount(recent_logs), 30)
         THEN <<"Aim for at least 30 minutes of physical activity daily">>
         ELSE <<>>
    ELSE <<"Regular exercise is key to maintaining good health">>

HydrationTips(recent_logs) ==
    IF recent_logs # <<>>
    THEN IF AvgLess(WindowTotal(recent_logs, "water_glasses"), WindowCount(recent_logs), 8)
         THEN <<"Stay hydrated by drinking at least 8 glasses of water daily">>
         ELSE <<>>
    ELSE <<"Proper hydration is essential">>

TemperatureTips(temp) ==
    IF temp > 30
    THEN <<"High temperatures detected">>
    ELSE IF temp < 15
         THEN <<"Cool weather - dress warmly">>
         ELSE <<>>

HumidityTips(humidity) ==
    IF humidity > 80 THEN <<"High humidity levels">> ELSE <<>>

\* Mutant: the humidity tip is appended before the temperature tip.
WeatherTipsHumidityFirst(weather_data) ==
    IF weather_data # EmptyDict /\ "current" \in DOMAIN weather_data
    THEN HumidityTips(Get(weather_data.current, "humidity", 50))
         \o TemperatureTips(Get(weather_data.current, "temp", 25))
    ELSE <<>>

WeatherTips(weather_data) ==
    IF weather_data # EmptyDict /\ "current" \in DOMAIN weather_data
    THEN TemperatureTips(Get(weather_data.current, "temp", 25))
         \o HumidityTips(Get(weather_data.current, "humidity", 50))
    ELSE <<>>

\* Mutant: the general-wellness filler is left out.
NoGeneralTips == <<>>

GeneralTips ==
    << "Include plenty of fruits and vegetables in your diet",
       "Practice stress management techniques",
       "Schedule regular health check-ups and screenings" >>

\* Mutant: the general-wellness filler is put in front of the personalized tips.
get_fallback_health_tips_filler_first(user, profile, recent_logs, weather_data) ==
    Take(GeneralTips \o SleepTips(recent_logs) \o ExerciseTips(recent_logs)
         \o HydrationTips(recent_logs) \o WeatherTips(weather_data), 5)

get_fallback_health_tips(user, profile, recent_logs, weather_data) ==
    Take(SleepTips(recent_logs) \o ExerciseTips(recent_logs) \o HydrationTips(recent_logs)
         \o WeatherTips(weather_data) \o GeneralTips, 5)

----------------------------------------------------------------------------
(* openai_service.py: the keyword-matched canned chat response *)

UpperCase == <<"A", "B", "C", "D", "E", "F", "G", "H", "I", "J", "K", "L", "M",
               "N", "O", "P", "Q", "R", "S", "T", "U", "V", "W", "X", "Y", "Z">>
LowerCase == <<"a", "b", "c", "d", "e", "f", "g", "h", "i", "j", "k", "l", "m",
               "n", "o", "p", "q", "r", "s", "t", "u", "v", "w", "x", "y", "z">>

\* str.lower() on one character, then on a text
LowerChar(c) ==
    IF \E i \in 1..Len(UpperCase) : UpperCase[i] = c
    THEN LowerCase[CHOOSE i \in 1..Len(UpperCase) : UpperCase[i] = c]
    ELSE c

Lower(text) == [i \in 1..Len(text) |-> LowerChar(text[i])]

UpperChar(c) ==
    IF \E i \in 1..Len(LowerCase) : LowerCase[i] = c
    THEN UpperCase[CHOOSE i \in 1..Len(LowerCase) : LowerCase[i] = c]
    ELSE c

IsLetter(c) == \E i \in 1..Len(LowerCase) : c \in {LowerCase[i], UpperCase[i]}

\* str.title(): a letter that follows no letter is upper-cased, every other
\* letter lower-cased
Title(text) ==
    [i \in 1..Len(text) |->
        IF i = 1 \/ ~IsLetter(text[i - 1]) THEN UpperChar(text[i]) ELSE LowerChar(text[i])]

\* word in text  (substring test)
Contains(text, word) ==
    \E i \in 1..(Len(text) - Len(word) + 1) : SubSeq(text, i, i + Len(word) - 1) = word

\* any(word in text for word in words)
AnyWordIn(words, text) == \E word \in words : Contains(text, word)

SleepWords ==
    { <<"s", "l", "e", "e", "p">>,
      <<"t", "i", "r", "e", "d">>,
      <<"i", "n", "s", "o", "m", "n", "i", "a">> }

ExerciseWords ==
    { <<"e", "x", "e", "r", "c", "i", "s", "e">>,
      <<"w", "o", "r", "k", "o", "u", "t">>,
      <<"f", "i", "t", "n", "e", "s", "s">> }

DietWords ==
    { <<"d", "i", "e", "t">>,
      <<"n", "u", "t", "r", "i", "t", "i", "o", "n">>,
      <<"f", "o", "o", "d">>,
      <<"e", "a", "t", "i", "n", "g">> }

StressWords ==
    { <<"s", "t", "r", "e", "s", "s">>,
      <<"a", "n", "x", "i", "e", "t", "y">>,
      <<"m", "e", "n", "t", "a", "l">> }

HydrationWords ==
    { <<"w", "a", "t", "e", "r">>,
      <<"h", "y", "d", "r", "a", "t", "i", "o", "n">>,
      <<"d", "r", "i", "n", "k">> }

\* Mutant: the exercise keywords are scanned before the sleep keywords.
get_fallback_chat_response_exercise_first(message) ==
    LET message_lower == Lower(message) IN
    IF AnyWordIn(ExerciseWords, message_lower)
    THEN "Regular exercise is great for overall health!"
    ELSE IF AnyWordIn(SleepWords, message_lower)
    THEN "For better sleep, try maintaining a consistent bedtime routine"
    ELSE IF AnyWordIn(DietWords, message_lower)
    THEN "A balanced diet with plenty of fruits, vegetables, whole grains"
    ELSE IF AnyWordIn(StressWords, message_lower)
    THEN "Managing stress is important for overall health"
    ELSE IF AnyWordIn(HydrationWords, message_lower)
    THEN "Staying hydrated is essential!"
    ELSE "I'm here to help with your health and wellness questions!"

get_fallback_chat_response(message) ==
    LET message_lower == Lower(message) IN
    IF AnyWordIn(SleepWords, message_lower)
    THEN "For better sleep, try maintaining a consistent bedtime routine"
    ELSE IF AnyWordIn(ExerciseWords, message_lower)
    THEN "Regular exercise is great for overall health!"
    ELSE IF AnyWordIn(DietWords, message_lower)
    THEN "A balanced diet with plenty of fruits, vegetables, whole grains"
    ELSE IF AnyWordIn(StressWords, message_lower)
    THEN "Managing stress is important for overall health"
    ELSE IF AnyWordIn(HydrationWords, message_lower)
    THEN "Staying hydrated is essential!"
    ELSE "I'm here to help with your health and wellness questions!"

----------------------------------------------------------------------------
(* openai_service.py: the AI gateway *)

PyDict(d) == [t |-> "dict", d |-> d]
\* A non-empty response text: either not JSON, or JSON that json.loads turns
\* into the value parsed.
PyText(doc) == [t |-> "text", doc |-> doc]
NotJson == [json |-> FALSE]
Json(parsed) == [json |-> TRUE, value |-> parsed]

\* The gateway raised to its caller (no path of the code does).
PyRaise == [t |-> "exception"]
NoResult == [t |-> "pending"]
NoOutcome == [kind |-> "none"]
NoArgs == EmptyDict
NoCall == [fn |-> "none"]

\* json.loads(content)
json_loads(content) ==
    IF content.doc.json THEN Returned(content.doc.value) ELSE Raised

\* Mutant: a response without the 'tips' key yields an empty list,
\* result.get('tips', []).
TipsTryBodyEmptyDefault(outcome, user, profile, recent_logs, weather_data) ==
    IF outcome.kind = "error"
    THEN Raised
    ELSE IF outcome.kind = "no_choices"
    THEN Raised
    ELSE IF Truthy(outcome.content)
    THEN LET parsed == json_loads(outcome.content) IN
         IF parsed.raised
         THEN Raised
         ELSE IF parsed.value.t = "dict"
              THEN Returned(Get(parsed.value.d, "tips", PyList(<<>>)))
              ELSE Raised
    ELSE Returned(PyList(get_fallback_health_tips(user, profile, recent_logs, weather_data)))

\* Lines 42-61 of get_health_tips: what the try body does with the outcome
\* of openai_client.chat.completions.create.
TipsTryBody(outcome, user, profile, recent_logs, weather_data) ==
    IF outcome.kind = "error"
    THEN Raised                                   \* create raised
    ELSE IF outcome.kind = "no_choices"
    THEN Raised                                   \* response.choices[0]: IndexError
    ELSE IF Truthy(outcome.content)
    THEN LET parsed == json_loads(outcome.content) IN
         IF parsed.raised
         THEN Raised                              \* json.JSONDecodeError
         ELSE IF parsed.value.t = "dict"
              THEN Returned(Get(parsed.value.d, "tips",
                        PyList(get_fallback_health_tips(user, profile, recent_logs, weather_data))))
              ELSE Raised                         \* result.get: AttributeError
    ELSE Returned(PyList(get_fallback_health_tips(user, profile, recent_logs, weather_data)))

\* The try/except of get_health_tips around that body.
TipsTryExcept(outcome, user, profile, recent_logs, weather_data) ==
    LET body == TipsTryBody(outcome, user, profile, recent_logs, weather_data) IN
    IF body.raised
    THEN PyList(get_fallback_health_tips(user, profile, recent_logs, weather_data))
    ELSE body.value

\* Mutant: empty content is answered with the keyword-matched response.
ChatTryBodyFallbackOnEmpty(outcome, message) ==
    IF outcome.kind = "error"
    THEN Raised
    ELSE IF outcome.kind = "no_choices"
    THEN Raised
    ELSE IF Truthy(outcome.content)
         THEN Returned(outcome.content)
         ELSE Returned(PyStr(get_fallback_chat_response(message)))

\* Line 94 of chat_with_ai.
ChatTryBody(outcome, message) ==
    IF outcome.kind = "error"
    THEN Raised
    ELSE IF outcome.kind = "no_choices"
    THEN Raised
    ELSE IF Truthy(outcome.content)
         THEN Returned(outcome.content)
         ELSE Returned(PyStr("I'm sorry, I couldn't generate a response. Please try again."))

\* The try/except of chat_with_ai around that body.
ChatTryExcept(outcome, message) ==
    LET body == ChatTryBody(outcome, message) IN
    IF body.raised THEN PyStr(get_fallback_chat_response(message)) ELSE body.value

(* Inputs of the gateway *)

MaxLogs == 8
MaxAITips == 6

SeqsUpTo(S, n) == UNION { [1..k -> S] : k \in 0..n }

LogValues ==
    { [sleep_hours |-> 5, exercise_minutes |-> 10, water_glasses |-> 3],
      [sleep_hours |-> 10, exercise_minutes |-> 60, water_glasses |-> 12] }

LogInputs == SeqsUpTo(LogValues, MaxLogs)

SampleUser == [name |-> "Ada", is_premium |-> FALSE]
SampleProfile == [age |-> 30, location |-> "Lagos"]

TipWeatherInputs ==
    { EmptyDict, [current |-> EmptyDict] }
    \cup { [current |-> [temp |-> t, humidity |-> h]] : t \in {14, 15, 30, 32}, h \in {80, 85} }

AiTips == << "ai tip 1", "ai tip 2", "ai tip 3", "ai tip 4",
             "ai tip 5", "ai tip 6", "ai tip 7", "ai tip 8" >>

\* What the model may put under the 'tips' key.
AiTipsValues ==
    { PyNone, PyStr("drink more water") } \cup { PyList(Take(AiTips, n)) : n \in 0..MaxAITips }

TipsContents ==
    { PyNone, PyStr(""), PyText(NotJson), PyText(Json(PyNone)), PyText(Json(PyList(<<>>))),
      PyText(Json(PyDict(EmptyDict))),
      PyText(Json(PyDict([advice |-> PyList(Take(AiTips, 3))]))) }
    \cup { PyText(Json(PyDict([tips |-> v]))) : v \in AiTipsValues }

TipsOutcomes ==
    { [kind |-> "error"], [kind |-> "no_choices"] }
    \cup { [kind |-> "content", content |-> c] : c \in TipsContents }

ChatOutcomes ==
    { [kind |-> "error"], [kind |-> "no_choices"] }
    \cup { [kind |-> "content", content |-> c] :
             c \in { PyNone, PyStr(""), PyStr("Try a short walk after dinner.") } }

\* The chat messages of the model, as character sequences.
\* I can't sleep at night
MsgCantSleep ==
    <<"I", " ", "c", "a", "n", "'", "t", " ", "s", "l", "e", "e", "p", " ", "a", "t", " ", "n", "i", "g", "h", "t">>
\* My WORKOUT makes me tired
MsgWorkoutTired ==
    <<"M", "y", " ", "W", "O", "R", "K", "O", "U", "T", " ", "m", "a", "k", "e", "s", " ", "m", "e", " ", "t", "i", "r", "e", "d">>
\* Best Workout plan?
MsgWorkoutPlan ==
    <<"B", "e", "s", "t", " ", "W", "o", "r", "k", "o", "u", "t", " ", "p", "l", "a", "n", "?">>
\* food or water
MsgFoodWater ==
    <<"f", "o", "o", "d", " ", "o", "r", " ", "w", "a", "t", "e", "r">>
\* I've been sweating
MsgSweating ==
    <<"I", "'", "v", "e", " ", "b", "e", "e", "n", " ", "s", "w", "e", "a", "t", "i", "n", "g">>
\* anxiety and drink
MsgAnxietyDrink ==
    <<"a", "n", "x", "i", "e", "t", "y", " ", "a", "n", "d", " ", "d", "r", "i", "n", "k">>
\* Should I DRINK more
MsgDrinkMore ==
    <<"S", "h", "o", "u", "l", "d", " ", "I", " ", "D", "R", "I", "N", "K", " ", "m", "o", "r", "e">>
\* hello there
MsgHello ==
    <<"h", "e", "l", "l", "o", " ", "t", "h", "e", "r", "e">>
\* fitness and insomnia
MsgFitnessInsomnia ==
    <<"f", "i", "t", "n", "e", "s", "s", " ", "a", "n", "d", " ", "i", "n", "s", "o", "m", "n", "i", "a">>
\* Stressed
MsgStressed ==
    <<"S", "t", "r", "e", "s", "s", "e", "d">>

Messages ==
    { MsgCantSleep,
      MsgWorkoutTired,
      MsgWorkoutPlan,
      MsgFoodWater,
      MsgSweating,
      MsgAnxietyDrink,
      MsgDrinkMore,
      MsgHello,
      MsgFitnessInsomnia,
      MsgStressed }

ChatLogInputs == { <<>> } \cup { <<l>> : l \in LogValues }

(* The invocations *)

\* get_health_tips up to its return (no client) or to the external call.
CallGetHealthTips(user, profile, recent_logs, weather_data) ==
    /\ pc = "idle"
    /\ op' = "tips"
    /\ args' = [user |-> user, profile |-> profile, recent_logs |-> recent_logs,
                weather_data |-> weather_data]
    /\ completion' = NoOutcome
    /\ IF ~openai_client
       THEN /\ pc' = "done"
            /\ attempts' = attempts
            /\ result' = PyList(get_fallback_health_tips(user, profile, recent_logs, weather_data))
       ELSE /\ pc' = "request_sent"
            /\ attempts' = attempts + 1
            /\ result' = NoResult
    /\ UNCHANGED openai_client

\* Mutant: a failed external call is attempted once more.
CompleteGetHealthTipsRetry(o) ==
    /\ pc = "request_sent"
    /\ op = "tips"
    /\ completion' = o
    /\ IF o.kind = "error" /\ attempts < 2
       THEN /\ pc' = "request_sent"
            /\ attempts' = attempts + 1
            /\ result' = NoResult
       ELSE /\ pc' = "done"
            /\ attempts' = attempts
            /\ result' = TipsTryExcept(o, args.user, args.profile, args.recent_logs,
                                       args.weather_data)
    /\ UNCHANGED <<openai_client, op, args>>

\* The external call of get_health_tips ends, and get_health_tips returns.
CompleteGetHealthTips(o) ==
    /\ pc = "request_sent"
    /\ op = "tips"
    /\ completion' = o
    /\ result' = TipsTryExcept(o, args.user, args.profile, args.recent_logs, args.weather_data)
    /\ pc' = "done"
    /\ UNCHANGED <<openai_client, op, args, attempts>>

\* chat_with_ai up to its return (no client) or to the external call.
CallChatWithAi(message, user, profile, recent_logs) ==
    /\ pc = "idle"
    /\ op' = "chat"
    /\ args' = [message |-> message, user |-> user, profile |-> profile,
                recent_logs |-> recent_logs]
    /\ completion' = NoOutcome
    /\ IF ~openai_client
       THEN /\ pc' = "done"
            /\ attempts' = attempts
            /\ result' = PyStr(get_fallback_chat_response(message))
       ELSE /\ pc' = "request_sent"
            /\ attempts' = attempts + 1
            /\ result' = NoResult
    /\ UNCHANGED openai_client

\* The external call of chat_with_ai ends, and chat_with_ai returns.
CompleteChatWithAi(o) ==
    /\ pc = "request_sent"
    /\ op = "chat"
    /\ completion' = o
    /\ result' = ChatTryExcept(o, args.message)
    /\ pc' = "done"
    /\ UNCHANGED <<openai_client, op, args, attempts>>

\* The caller has the result; the next invocation starts afresh.
GatewayReturn ==
    /\ pc = "done"
    /\ pc' = "idle"
    /\ op' = "none"
    /\ args' = NoArgs
    /\ attempts' = 0
    /\ completion' = NoOutcome
    /\ result' = NoResult
    /\ UNCHANGED openai_client

----------------------------------------------------------------------------
(* weather_service.py: the risk classifier *)

\* The provider reports temp and feels_like as decimal numbers.  They are kept
\* in units of 1/Scale degree; humidity is a whole percentage.
Scale == 2

\* x > k, for x in units of 1/Scale
Above(x, k) == x > k * Scale

\* round(x): to the nearest integer, a tie to the even one
Round(x) ==
    LET q == x \div Scale
        r == x % Scale
    IN  IF 2 * r < Scale THEN q
        ELSE IF 2 * r > Scale THEN q + 1
        ELSE IF q % 2 = 0 THEN q ELSE q + 1

\* Mutant: the heat-stress thresholds are inclusive.
HeatStressInclusive(feels_like) ==
    IF feels_like >= 35 * Scale THEN "high"
    ELSE IF feels_like >= 30 * Scale THEN "moderate"
    ELSE "low"

HeatStress(feels_like) ==
    IF Above(feels_like, 35) THEN "high"
    ELSE IF Above(feels_like, 30) THEN "moderate"
    ELSE "low"

UvRisk(weather_main, temp) ==
    IF Contains(weather_main, <<"c", "l", "e", "a", "r">>) /\ Above(temp, 25) THEN "high"
    ELSE IF Above(temp, 20) THEN "moderate"
    ELSE "low"

AirQuality(humidity) ==
    IF humidity > 80 THEN "poor"
    ELSE IF humidity > 60 THEN "moderate"
    ELSE "good"

DehydrationRisk(temp, humidity) ==
    IF Above(temp, 32) \/ (Above(temp, 28) /\ humidity > 70) THEN "high"
    ELSE IF Above(temp, 25) THEN "moderate"
    ELSE "low"

\* calculate_health_risks(weather_data), for a payload that has the keys read
calculate_health_risks(weather_data) ==
    LET temp == weather_data.main.temp
        humidity == weather_data.main.humidity
        feels_like == weather_data.main.feels_like
        weather_main == Lower(weather_data.weather[1].main)
    IN  [ heat_stress |-> HeatStress(feels_like),
          uv_risk |-> UvRisk(weather_main, temp),
          air_quality |-> AirQuality(humidity),
          dehydration_risk |-> DehydrationRisk(temp, humidity) ]

(* weather_service.py: the weather fetch and its mock *)

get_mock_weather_data(location) ==
    [ location |-> location,
      country |-> "NG",
      current |-> [temp |-> 28, feels_like |-> 32, humidity |-> 75,
                   description |-> <<"P", "a", "r", "t", "l", "y", " ", "C", "l", "o", "u", "d", "y">>],
      risk_indicators |-> [heat_stress |-> "moderate", uv_risk |-> "high",
                           air_quality |-> "moderate", dehydration_risk |-> "moderate"],
      mock_data |-> TRUE ]

\* The keys lines 33-45 and calculate_health_risks read are all there.
HasKeysRead(data) ==
    /\ {"name", "sys", "main", "weather"} \subseteq DOMAIN data
    /\ "country" \in DOMAIN data.sys
    /\ {"temp", "feels_like", "humidity"} \subseteq DOMAIN data.main
    /\ Len(data.weather) >= 1
    /\ {"main", "description"} \subseteq DOMAIN data.weather[1]

\* Lines 27-51 of get_weather_data: what the try body does with the outcome
\* of requests.get.
WeatherTryBody(provider, location) ==
    IF provider.kind = "exception"
    THEN Raised                                   \* requests.get raised
    ELSE IF provider.status_code = 200
    THEN IF provider.kind = "not_json"
         THEN Raised                              \* response.json() raised
         ELSE IF ~HasKeysRead(provider.data)
         THEN Raised                              \* KeyError, IndexError
         ELSE Returned(
                [ location |-> provider.data.name,
                  country |-> provider.data.sys.country,
                  current |-> [temp |-> Round(provider.data.main.temp),
                               feels_like |-> Round(provider.data.main.feels_like),
                               humidity |-> provider.data.main.humidity,
                               description |-> Title(provider.data.weather[1].description)],
                  risk_indicators |-> calculate_health_risks(provider.data) ])
    ELSE Returned(get_mock_weather_data(location))

\* Mutant: only a failed request is caught; a payload that cannot be read
\* raises to the caller.
get_weather_data_narrow_except(api_key, provider, location) ==
    IF ~api_key
    THEN get_mock_weather_data(location)
    ELSE LET body == WeatherTryBody(provider, location) IN
         IF body.raised
         THEN IF provider.kind = "exception"
              THEN get_mock_weather_data(location)
              ELSE PyRaise
         ELSE body.value

get_weather_data(api_key, provider, location) ==
    IF ~api_key
    THEN get_mock_weather_data(location)
    ELSE LET body == WeatherTryBody(provider, location) IN
         IF body.raised THEN get_mock_weather_data(location) ELSE body.value

(* weather_service.py: the alert generator *)

Alert(type, title) == [type |-> type, title |-> title]

\* Mutant: the two heat alerts are tested independently.
TemperatureAlertsNotExclusive(temp) ==
    (IF temp > 35 THEN <<Alert("warning", "Extreme Heat Alert")>> ELSE <<>>)
    \o (IF temp > 30 THEN <<Alert("caution", "Heat Advisory")>> ELSE <<>>)

TemperatureAlerts(temp) ==
    IF temp > 35 THEN <<Alert("warning", "Extreme Heat Alert")>>
    ELSE IF temp > 30 THEN <<Alert("caution", "Heat Advisory")>>
    ELSE <<>>

HumidityAlerts(humidity) ==
    IF humidity > 85 THEN <<Alert("info", "High Humidity Alert")>> ELSE <<>>

RiskAlerts(risks) ==
    (IF Get(risks, "dehydration_risk", "None") = "high"
     THEN <<Alert("warning", "Dehydration Risk")>> ELSE <<>>)
    \o (IF Get(risks, "uv_risk", "None") = "high"
        THEN <<Alert("caution", "High UV Index")>> ELSE <<>>)
    \o (IF Get(risks, "air_quality", "None") = "poor"
        THEN <<Alert("caution", "Air Quality Advisory")>> ELSE <<>>)

\* avg_exercise = sum(... for log in recent_logs[:3]) / min(len(recent_logs), 3)
\* Mutant: the exercise alert does not look at the temperature.
ActivityAlertsAnyTemperature(recent_logs, temp) ==
    IF recent_logs # <<>>
    THEN IF AvgGreater(SumField(Take(recent_logs, 3), "exercise_minutes"),
                       Min(Len(recent_logs), 3), 60)
         THEN <<Alert("info", "Exercise Adjustment")>>
         ELSE <<>>
    ELSE <<>>

ActivityAlerts(recent_logs, temp) ==
    IF recent_logs # <<>>
    THEN IF AvgGreater(SumField(Take(recent_logs, 3), "exercise_minutes"),
                       Min(Len(recent_logs), 3), 60) /\ temp > 30
         THEN <<Alert("info", "Exercise Adjustment")>>
         ELSE <<>>
    ELSE <<>>

SeasonalAlerts(temp) ==
    IF temp < 20 THEN <<Alert("info", "Cool Weather Reminder")>> ELSE <<>>

get_health_alerts(user, profile, recent_logs, weather_data) ==
    IF weather_data = EmptyDict
    THEN <<>>
    ELSE LET current == Get(weather_data, "current", EmptyDict)
             risks == Get(weather_data, "risk_indicators", EmptyDict)
             temp == Get(current, "temp", 25)
             humidity == Get(current, "humidity", 50)
         IN  TemperatureAlerts(temp) \o HumidityAlerts(humidity) \o RiskAlerts(risks)
             \o ActivityAlerts(recent_logs, temp) \o SeasonalAlerts(temp)

(* Inputs of the weather functions *)

MaxAlertLogs == 4

Locations == {"Lagos", "Abuja"}

TextClear == <<"C", "l", "e", "a", "r">>
TextClouds == <<"C", "l", "o", "u", "d", "s">>
TextClearSky == <<"c", "l", "e", "a", "r", " ", "s", "k", "y">>
TextBrokenClouds == <<"b", "r", "o", "k", "e", "n", " ", "c", "l", "o", "u", "d", "s">>

\* Degrees at and just above each threshold of the classifier, in 1/Scale.
ProviderTemps ==
    { k * Scale + f : k \in {20, 25, 28, 32}, f \in {0, 1} } \cup { 36 * Scale }

ProviderFeelsLike == { k * Scale + f : k \in {30, 35}, f \in {0, 1} }

ProviderHumidities == {60, 61, 70, 71, 80, 81}

CompletePayloads ==
    { [ name |-> "Lagos", sys |-> [country |-> "NG"],
        main |-> [temp |-> t, feels_like |-> fl, humidity |-> h],
        weather |-> <<w>> ] :
      t \in ProviderTemps, fl \in ProviderFeelsLike, h \in ProviderHumidities,
      w \in { [main |-> TextClear, description |-> TextClearSky],
              [main |-> TextClouds, description |-> TextBrokenClouds] } }

\* Payloads that lack something the code reads.
MalformedPayloads ==
    { [ cod |-> 200 ],
      [ name |-> "Lagos", sys |-> [country |-> "NG"],
        main |-> [temp |-> 30 * Scale, humidity |-> 70],
        weather |-> <<[main |-> TextClear, description |-> TextClearSky]>> ],
      [ name |-> "Lagos", sys |-> [country |-> "NG"],
        main |-> [temp |-> 30 * Scale, feels_like |-> 33 * Scale, humidity |-> 70],
        weather |-> <<>> ] }

ProviderOutcomes ==
    { [kind |-> "exception"], [kind |-> "not_json", status_code |-> 200] }
    \cup { [kind |-> "response", status_code |-> c, data |-> [cod |-> c]] : c \in {401, 404, 500} }
    \cup { [kind |-> "response", status_code |-> 200, data |-> d] :
             d \in CompletePayloads \cup MalformedPayloads }

AlertLogValues == { [exercise_minutes |-> e] : e \in {30, 70, 90} }

AlertLogInputs == SeqsUpTo(AlertLogValues, MaxAlertLogs)

AlertWeatherInputs ==
    { EmptyDict, [current |-> [temp |-> 36, humidity |-> 90]] }
    \cup { get_mock_weather_data(l) : l \in Locations }
    \cup { [ current |-> [temp |-> t, humidity |-> h],
             risk_indicators |-> [heat_stress |-> "low", uv_risk |-> uv, air_quality |-> aq,
                                  dehydration_risk |-> dr] ] :
           t \in {19, 20, 30, 31, 35, 36}, h \in {85, 90},
           uv \in {"moderate", "high"}, aq \in {"moderate", "poor"},
           dr \in {"moderate", "high"} }

(* The weather calls *)

GetWeatherData(location, provider) ==
    /\ wcall = NoCall
    /\ wcall' = [fn |-> "get_weather_data", location |-> location, provider |-> provider]
    /\ wresult' = get_weather_data(OPENWEATHER_API_KEY, provider, location)
    /\ UNCHANGED OPENWEATHER_API_KEY

GetHealthAlerts(user, profile, recent_logs, weather_data) ==
    /\ wcall = NoCall
    /\ wcall' = [fn |-> "get_health_alerts", recent_logs |-> recent_logs,
                 weather_data |-> weather_data]
    /\ wresult' = get_health_alerts(user, profile, recent_logs, weather_data)
    /\ UNCHANGED OPENWEATHER_API_KEY

\* The caller has the result; the next call starts afresh.
WeatherReturn ==
    /\ wcall # NoCall
    /\ wcall' = NoCall
    /\ wresult' = NoResult
    /\ UNCHANGED OPENWEATHER_API_KEY

----------------------------------------------------------------------------
(* models.py: the lifestyle-log store *)

\* str < str compares character by character, by code point; these are the
\* characters of a date, in code-point order.
CharOrder == <<"-", "0", "1", "2", "3", "4", "5", "6", "7", "8", "9">>

CharCode(c) == CHOOSE i \in 1..Len(CharOrder) : CharOrder[i] = c

RECURSIVE StrLess(_, _)
StrLess(a, b) ==
    IF b = <<>> THEN FALSE
    ELSE IF a = <<>> THEN TRUE
    ELSE IF Head(a) = Head(b) THEN StrLess(Tail(a), Tail(b))
    ELSE CharCode(Head(a)) < CharCode(Head(b))

\* The place of x in a list sorted by date, descending, that keeps entries of
\* equal date in the order they had: after every entry whose date is not
\* smaller than that of x.
InsertByDateDesc(sorted, x) ==
    LET k == Cardinality({ i \in 1..Len(sorted) : ~StrLess(sorted[i].date, x.date) })
    IN  SubSeq(sorted, 1, k) \o <<x>> \o SubSeq(sorted, k + 1, Len(sorted))

\* sorted(logs, key=lambda x: x['date'], reverse=True)
RECURSIVE SortedByDateDesc(_)
SortedByDateDesc(logs) ==
    IF logs = <<>>
    THEN <<>>
    ELSE InsertByDateDesc(SortedByDateDesc(SubSeq(logs, 1, Len(logs) - 1)), logs[Len(logs)])

\* Mutant: the sort is ascending (reverse=True left out).
LifestyleLog_get_by_user_id_ascending(db, user_id, limit) ==
    IF user_id \notin DOMAIN db
    THEN <<>>
    ELSE LET desc == SortedByDateDesc(db[user_id])
             logs == [i \in 1..Len(desc) |-> desc[Len(desc) + 1 - i]]
         IN  IF limit # 0 /\ limit > 0 THEN Take(logs, limit) ELSE logs

\* LifestyleLog.get_by_user_id(user_id, limit), for an integer limit
LifestyleLog_get_by_user_id(db, user_id, limit) ==
    IF user_id \notin DOMAIN db
    THEN <<>>
    ELSE LET logs == SortedByDateDesc(db[user_id])
         IN  IF limit # 0 /\ limit > 0 THEN Take(logs, limit) ELSE logs

\* Mutant: the new entry is put in front of the user's entries.
LifestyleLog_create_in_front(db, log_id, user_id, date, sleep_hours, exercise_minutes, water_glasses, meals, notes) ==
    LET entry == [ id |-> log_id, user_id |-> user_id, date |-> date,
                   sleep_hours |-> sleep_hours, exercise_minutes |-> exercise_minutes,
                   water_glasses |-> water_glasses, meals |-> meals, notes |-> notes ]
        old == IF user_id \in DOMAIN db THEN db[user_id] ELSE <<>>
    IN  [u \in DOMAIN db \cup {user_id} |-> IF u = user_id THEN <<entry>> \o old ELSE db[u]]

\* lifestyle_logs_db after LifestyleLog.create(...), which takes log_id from
\* get_next_log_id()
LifestyleLog_create(db, log_id, user_id, date, sleep_hours, exercise_minutes, water_glasses, meals, notes) ==
    LET entry == [ id |-> log_id, user_id |-> user_id, date |-> date,
                   sleep_hours |-> sleep_hours, exercise_minutes |-> exercise_minutes,
                   water_glasses |-> water_glasses, meals |-> meals, notes |-> notes ]
        old == IF user_id \in DOMAIN db THEN db[user_id] ELSE <<>>
    IN  [u \in DOMAIN db \cup {user_id} |-> IF u = user_id THEN Append(old, entry) ELSE db[u]]

(* auth.py: the session *)

\* generate_password_hash / check_password_hash, kept abstract: a hash is
\* checked against the password it was made from.
generate_password_hash(password) == <<"hash", password>>
check_password_hash(pwhash, password) == pwhash = <<"hash", password>>

\* User.get_by_email(email): the matching user records (at most one is stored)
User_get_by_email(db, email) == { db[u] : u \in { v \in DOMAIN db : db[v].email = email } }

Response(status, body) == [status |-> status, body |-> body]

\* require_login: the handler runs only for a session that has a user_id
LoggedIn(s) == "user_id" \in DOMAIN s

Unauthenticated == Response(401, [error |-> "Authentication required"])

PyInt(n) == [t |-> "int", v |-> n]

\* int(x) and float(x) of a submitted JSON value: a number is taken as it
\* is, a text that is no number raises ValueError.
ToNumber(x) == IF x.t = "int" THEN Returned(x.v) ELSE Raised

\* request.args.get(key, default, type=int): the default when the parameter
\* is absent or is no integer
ArgsGetInt(query, key, default) ==
    IF key \in DOMAIN query /\ query[key].t = "int" THEN query[key].v ELSE default

\* Truthiness of data.get(key): the key is there and its text is not empty.
HasText(data, key) == key \in DOMAIN data /\ data[key] # ""

(* auth.py and health_api.py: the handlers *)

\* POST /login
login(data) ==
    /\ request = NoCall
    /\ request' = [fn |-> "login", data |-> data]
    /\ IF ~HasText(data, "email") \/ ~HasText(data, "password")
       THEN /\ response' = Response(400, [error |-> "Email and password required"])
            /\ UNCHANGED session
       ELSE LET found == User_get_by_email(users_db, data.email) IN
            IF found = {} \/ \A user \in found :
                                 ~check_password_hash(user.password_hash, data.password)
            THEN /\ response' = Response(401, [error |-> "Invalid email or password"])
                 /\ UNCHANGED session
            ELSE LET user == CHOOSE u \in found : TRUE IN
                 /\ session' = [user_id |-> user.id, user_email |-> user.email]
                 /\ response' = Response(200, [user_id |-> user.id])
    /\ UNCHANGED <<users_db, lifestyle_logs_db, log_id_counter, profileVars, paymentVars>>

\* Mutant: logout forgets the email and keeps the user_id.
logout_keep_user_id ==
    /\ request = NoCall
    /\ request' = [fn |-> "logout"]
    /\ session' = [k \in DOMAIN session \ {"user_email"} |-> session[k]]
    /\ response' = Response(200, [message |-> "Logout successful"])
    /\ UNCHANGED <<users_db, lifestyle_logs_db, log_id_counter, profileVars, paymentVars>>

\* POST /logout
logout ==
    /\ request = NoCall
    /\ request' = [fn |-> "logout"]
    /\ session' = EmptyDict
    /\ response' = Response(200, [message |-> "Logout successful"])
    /\ UNCHANGED <<users_db, lifestyle_logs_db, log_id_counter, profileVars, paymentVars>>

RequiredLogFields == <<"sleep_hours", "exercise_minutes", "water_glasses", "meals">>

\* POST /log-lifestyle; today is datetime.now() as '%Y-%m-%d'
log_lifestyle(data, today) ==
    /\ request = NoCall
    /\ request' = [fn |-> "log_lifestyle", data |-> data]
    /\ UNCHANGED <<users_db, session, profileVars, paymentVars>>
    /\ IF ~LoggedIn(session)
       THEN /\ response' = Unauthenticated
            /\ UNCHANGED <<lifestyle_logs_db, log_id_counter>>
       ELSE IF \E i \in 1..Len(RequiredLogFields) : RequiredLogFields[i] \notin DOMAIN data
       THEN LET i == CHOOSE k \in 1..Len(RequiredLogFields) :
                        /\ RequiredLogFields[k] \notin DOMAIN data
                        /\ \A j \in 1..(k - 1) : RequiredLogFields[j] \in DOMAIN data
            IN  /\ response' = Response(400, [error |-> "Missing required field",
                                               field |-> RequiredLogFields[i]])
                /\ UNCHANGED <<lifestyle_logs_db, log_id_counter>>
       ELSE LET sleep_hours == ToNumber(data.sleep_hours)
                exercise_minutes == ToNumber(data.exercise_minutes)
                water_glasses == ToNumber(data.water_glasses)
            IN  IF sleep_hours.raised \/ exercise_minutes.raised \/ water_glasses.raised
                THEN /\ response' = Response(500, [error |-> "Failed to save lifestyle log"])
                     /\ UNCHANGED <<lifestyle_logs_db, log_id_counter>>
                ELSE /\ lifestyle_logs_db' =
                            LifestyleLog_create(lifestyle_logs_db, log_id_counter,
                                session.user_id, Get(data, "date", today),
                                sleep_hours.value, exercise_minutes.value,
                                water_glasses.value, data.meals, Get(data, "notes", ""))
                     /\ log_id_counter' = log_id_counter + 1
                     /\ response' = Response(201, [log_id |-> log_id_counter])

\* GET /lifestyle
get_lifestyle(query) ==
    /\ request = NoCall
    /\ request' = [fn |-> "get_lifestyle", query |-> query]
    /\ UNCHANGED <<users_db, session, lifestyle_logs_db, log_id_counter, profileVars, paymentVars>>
    /\ IF ~LoggedIn(session)
       THEN response' = Unauthenticated
       ELSE response' = Response(200,
                [logs |-> LifestyleLog_get_by_user_id(lifestyle_logs_db, session.user_id,
                                                      ArgsGetInt(query, "limit", 30))])

\* Profile.create_or_update(...): profiles_db afterwards
Profile_create_or_update(db, user_id, age, gender, location, exercise_frequency, sleep_hours, diet_type) ==
    [ u \in DOMAIN db \cup {user_id} |->
        IF u = user_id
        THEN [ user_id |-> user_id, age |-> age, gender |-> gender, location |-> location,
               exercise_frequency |-> exercise_frequency, sleep_hours |-> sleep_hours,
               diet_type |-> diet_type ]
        ELSE db[u] ]

\* Profile.get_by_user_id(user_id): profiles_db.get(user_id)
Profile_get_by_user_id(db, user_id) == Get(db, user_id, PyNone)

\* User.get_by_id(user_id): users_db.get(user_id)
User_get_by_id(db, user_id) == Get(db, user_id, PyNone)

\* GET /profile
get_profile ==
    /\ request = NoCall
    /\ request' = [fn |-> "get_profile"]
    /\ UNCHANGED <<users_db, session, lifestyle_logs_db, log_id_counter, profileVars, paymentVars>>
    /\ IF ~LoggedIn(session)
       THEN response' = Unauthenticated
       ELSE LET user == User_get_by_id(users_db, session.user_id)
                profile == Profile_get_by_user_id(profiles_db, session.user_id)
            IN  IF user = PyNone
                THEN response' = Response(404, [error |-> "User not found"])
                ELSE response' = Response(200,
                        [ user |-> [ id |-> user.id, name |-> user.name, email |-> user.email,
                                     is_premium |-> user.is_premium ],
                          profile |-> profile ])

\* Mutant: a field the request leaves out keeps the value it had (a merge).
update_profile_merge(data) ==
    /\ request = NoCall
    /\ request' = [fn |-> "update_profile", data |-> data]
    /\ UNCHANGED <<users_db, session, lifestyle_logs_db, log_id_counter, paymentVars>>
    /\ IF ~LoggedIn(session)
       THEN /\ response' = Unauthenticated
            /\ UNCHANGED profiles_db
       ELSE LET old == Get(profiles_db, session.user_id,
                           [ age |-> 25, gender |-> "other", location |-> "",
                             exercise_frequency |-> "moderate", sleep_hours |-> 8,
                             diet_type |-> "balanced" ])
                age == ToNumber(Get(data, "age", PyInt(old.age)))
                sleep_hours == ToNumber(Get(data, "sleep_hours", PyInt(old.sleep_hours)))
            IN  IF age.raised \/ sleep_hours.raised
                THEN /\ response' = Response(500, [error |-> "Failed to update profile"])
                     /\ UNCHANGED profiles_db
                ELSE /\ profiles_db' =
                            Profile_create_or_update(profiles_db, session.user_id,
                                age.value, Get(data, "gender", old.gender),
                                Get(data, "location", old.location),
                                Get(data, "exercise_frequency", old.exercise_frequency),
                                sleep_hours.value, Get(data, "diet_type", old.diet_type))
                     /\ response' = Response(200, [message |-> "Profile updated successfully"])

\* PUT /profile
update_profile(data) ==
    /\ request = NoCall
    /\ request' = [fn |-> "update_profile", data |-> data]
    /\ UNCHANGED <<users_db, session, lifestyle_logs_db, log_id_counter, paymentVars>>
    /\ IF ~LoggedIn(session)
       THEN /\ response' = Unauthenticated
            /\ UNCHANGED profiles_db
       ELSE LET age == ToNumber(Get(data, "age", PyInt(25)))
                sleep_hours == ToNumber(Get(data, "sleep_hours", PyInt(8)))
            IN  IF age.raised \/ sleep_hours.raised
                THEN /\ response' = Response(500, [error |-> "Failed to update profile"])
                     /\ UNCHANGED profiles_db
                ELSE /\ profiles_db' =
                            Profile_create_or_update(profiles_db, session.user_id,
                                age.value, Get(data, "gender", "other"),
                                Get(data, "location", ""),
                                Get(data, "exercise_frequency", "moderate"),
                                sleep_hours.value, Get(data, "diet_type", "balanced"))
                     /\ response' = Response(200, [message |-> "Profile updated successfully"])

(* models.py and payments.py: payments *)

\* All payments, whoever owns them.
AllPayments(db) == UNION { { db[u][i] : i \in 1..Len(db[u]) } : u \in DOMAIN db }

\* Payment.create(...): payments_db afterwards; payment_id comes from
\* get_next_payment_id()
Payment_create(db, payment_id, user_id, reference, amount, currency) ==
    LET payment == [ id |-> payment_id, user_id |-> user_id, reference |-> reference,
                     amount |-> amount, currency |-> currency, status |-> "pending",
                     gateway_response |-> EmptyDict ]
        old == IF user_id \in DOMAIN db THEN db[user_id] ELSE <<>>
    IN  [u \in DOMAIN db \cup {user_id} |-> IF u = user_id THEN Append(old, payment) ELSE db[u]]

\* Payment.get_by_reference(reference).  References are HC_<user>_<token> with
\* a fresh random token each, so no two payments share one and "the first
\* payment with that reference" is the only one.
Payment_get_by_reference(db, reference) ==
    IF \E p \in AllPayments(db) : p.reference = reference
    THEN CHOOSE p \in AllPayments(db) : p.reference = reference
    ELSE PyNone

\* Payment.update_status(reference, status, gateway_response), for a
\* gateway_response that is not None: payments_db afterwards
Payment_update_status(db, reference, status, gateway_response) ==
    [ u \in DOMAIN db |->
        [ i \in 1..Len(db[u]) |->
            IF db[u][i].reference = reference
            THEN [db[u][i] EXCEPT !.status = status, !.gateway_response = gateway_response]
            ELSE db[u][i] ] ]

\* User.update_premium_status(user_id, is_premium): users_db afterwards
User_update_premium_status(db, user_id, is_premium) ==
    IF user_id \in DOMAIN db
    THEN [db EXCEPT ![user_id].is_premium = is_premium]
    ELSE db

\* f"HC_{user_id}_{secrets.token_hex(8)}"
Reference(user_id, token) == <<"HC", user_id, token>>

\* The gateway was not asked.
NotCalled == [kind |-> "not_called"]

\* amount / 100 for the amounts in kobo that are submitted, all multiples of
\* 100; an amount that is no number raises TypeError.
AmountInNaira(amount) ==
    IF amount.t = "int" THEN Returned(amount.v \div 100) ELSE Raised

\* POST /pay; token is what secrets.token_hex(8) gives, gateway is how
\* requests.post to /transaction/initialize ends.
initialize_payment(data, token, gateway) ==
    /\ request = NoCall
    /\ UNCHANGED <<session, lifestyle_logs_db, log_id_counter, profileVars,
                   PAYSTACK_SECRET_KEY, users_db>>
    /\ IF ~LoggedIn(session)
       THEN /\ request' = [fn |-> "initialize_payment", data |-> data, gateway |-> NotCalled]
            /\ response' = Unauthenticated
            /\ UNCHANGED <<payments_db, payment_id_counter>>
       ELSE IF User_get_by_id(users_db, session.user_id) = PyNone
       THEN /\ request' = [fn |-> "initialize_payment", data |-> data, gateway |-> NotCalled]
            /\ response' = Response(404, [error |-> "User not found"])
            /\ UNCHANGED <<payments_db, payment_id_counter>>
       ELSE LET user_id == session.user_id
                amount == AmountInNaira(Get(data, "amount", PyInt(5000)))
                reference == Reference(user_id, token)
                created == Payment_create(payments_db, payment_id_counter, user_id,
                                          reference, amount.value, "NGN")
            IN  IF ~PAYSTACK_SECRET_KEY
                THEN /\ request' = [fn |-> "initialize_payment", data |-> data,
                                    gateway |-> NotCalled]
                     /\ IF amount.raised
                        THEN /\ response' = Response(500, [error |-> "Payment initialization failed"])
                             /\ UNCHANGED <<payments_db, payment_id_counter>>
                        ELSE /\ payments_db' = created
                             /\ payment_id_counter' = payment_id_counter + 1
                             /\ response' = Response(200,
                                    [status |-> "success", reference |-> reference,
                                     mock_mode |-> TRUE])
                ELSE /\ request' = [fn |-> "initialize_payment", data |-> data,
                                    gateway |-> gateway]
                     /\ IF gateway.kind = "response" /\ gateway.status_code = 200
                           /\ gateway.json # NotJson /\ ~amount.raised
                        THEN /\ payments_db' = created
                             /\ payment_id_counter' = payment_id_counter + 1
                             /\ response' = Response(200, gateway.json)
                        ELSE /\ response' = Response(500, [error |-> "Payment initialization failed"])
                             /\ UNCHANGED <<payments_db, payment_id_counter>>

\* request.args.get('mock', 'false').lower() == 'true'
MockMode(query) == Lower(Get(query, "mock", <<"f", "a", "l", "s", "e">>)) = <<"t", "r", "u", "e">>

\* response_data['data']['status'] can be read
HasDataStatus(json) ==
    /\ json # NotJson
    /\ "data" \in DOMAIN json
    /\ "status" \in DOMAIN json.data

\* GET /verify-payment; gateway is how requests.get to
\* /transaction/verify/<reference> ends.
verify_payment(query, gateway) ==
    /\ request = NoCall
    /\ UNCHANGED <<session, lifestyle_logs_db, log_id_counter, profileVars,
                   PAYSTACK_SECRET_KEY, payment_id_counter>>
    /\ IF ~LoggedIn(session)
       THEN /\ request' = [fn |-> "verify_payment", query |-> query, gateway |-> NotCalled]
            /\ response' = Unauthenticated
            /\ UNCHANGED <<payments_db, users_db>>
       ELSE IF "reference" \notin DOMAIN query
       THEN /\ request' = [fn |-> "verify_payment", query |-> query, gateway |-> NotCalled]
            /\ response' = Response(400, [error |-> "Reference is required"])
            /\ UNCHANGED <<payments_db, users_db>>
       ELSE LET reference == query.reference
                payment == Payment_get_by_reference(payments_db, reference)
            IN  IF payment = PyNone
                THEN /\ request' = [fn |-> "verify_payment", query |-> query,
                                    gateway |-> NotCalled]
                     /\ response' = Response(404, [error |-> "Payment not found"])
                     /\ UNCHANGED <<payments_db, users_db>>
                ELSE IF MockMode(query) \/ ~PAYSTACK_SECRET_KEY
                THEN /\ request' = [fn |-> "verify_payment", query |-> query,
                                    gateway |-> NotCalled]
                     /\ payments_db' = Payment_update_status(payments_db, reference, "success",
                                            [gateway_response |-> "Approved (Mock)"])
                     /\ users_db' = User_update_premium_status(users_db, payment.user_id, TRUE)
                     /\ response' = Response(200,
                            [status |-> "success", reference |-> reference, mock_mode |-> TRUE])
                ELSE /\ request' = [fn |-> "verify_payment", query |-> query,
                                    gateway |-> gateway]
                     /\ IF gateway.kind = "response" /\ gateway.status_code = 200
                           /\ HasDataStatus(gateway.json)
                        THEN IF gateway.json.data.status = "success"
                             THEN /\ payments_db' = Payment_update_status(payments_db,
                                                        reference, "success", gateway.json.data)
                                  /\ users_db' = User_update_premium_status(users_db,
                                                        payment.user_id, TRUE)
                                  /\ response' = Response(200, gateway.json)
                             ELSE /\ payments_db' = Payment_update_status(payments_db,
                                                        reference, "failed", gateway.json.data)
                                  /\ UNCHANGED users_db
                                  /\ response' = Response(400,
                                         [error |-> "Payment verification failed"])
                        ELSE /\ response' = Response(500,
                                    [error |-> "Payment verification failed"])
                             /\ UNCHANGED <<payments_db, users_db>>

\* POST /paystack-webhook: no login, and the signature is not looked at.
paystack_webhook(event_data) ==
    /\ request = NoCall
    /\ request' = [fn |-> "paystack_webhook", event_data |-> event_data]
    /\ UNCHANGED <<session, lifestyle_logs_db, log_id_counter, profileVars,
                   PAYSTACK_SECRET_KEY, payment_id_counter>>
    /\ IF "event" \notin DOMAIN event_data
       THEN /\ response' = Response(500, [error |-> "Webhook processing failed"])
            /\ UNCHANGED <<payments_db, users_db>>
       ELSE IF event_data.event # "charge.success"
       THEN /\ response' = Response(200, [status |-> "success"])
            /\ UNCHANGED <<payments_db, users_db>>
       ELSE IF "data" \notin DOMAIN event_data \/ "reference" \notin DOMAIN event_data.data
       THEN /\ response' = Response(500, [error |-> "Webhook processing failed"])
            /\ UNCHANGED <<payments_db, users_db>>
       ELSE LET reference == event_data.data.reference
                payment == Payment_get_by_reference(payments_db, reference)
            IN  /\ response' = Response(200, [status |-> "success"])
                /\ IF payment = PyNone
                   THEN UNCHANGED <<payments_db, users_db>>
                   ELSE /\ payments_db' = Payment_update_status(payments_db, reference,
                                              "success", event_data.data)
                        /\ users_db' = User_update_premium_status(users_db,
                                              payment.user_id, TRUE)

(* health_api.py: the handlers that read the log *)

\* The place of x in a list sorted by date, ascending, that keeps entries of
\* equal date in the order they had.
InsertByDateAsc(sorted, x) ==
    LET k == Cardinality({ i \in 1..Len(sorted) : ~StrLess(x.date, sorted[i].date) })
    IN  SubSeq(sorted, 1, k) \o <<x>> \o SubSeq(sorted, k + 1, Len(sorted))

\* sorted(logs, key=lambda x: x['date'])
RECURSIVE SortedByDateAsc(_)
SortedByDateAsc(logs) ==
    IF logs = <<>>
    THEN <<>>
    ELSE InsertByDateAsc(SortedByDateAsc(SubSeq(logs, 1, Len(logs) - 1)), logs[Len(logs)])

\* get_health_tips as a function of the client and of how its one external
\* call ends
get_health_tips(client, outcome, user, profile, recent_logs, weather_data) ==
    IF ~client
    THEN PyList(get_fallback_health_tips(user, profile, recent_logs, weather_data))
    ELSE TipsTryExcept(outcome, user, profile, recent_logs, weather_data)

\* chat_with_ai, likewise
chat_with_ai(client, outcome, message) ==
    IF ~client
    THEN PyStr(get_fallback_chat_response(message))
    ELSE ChatTryExcept(outcome, message)

\* profile.get('location', 'Lagos') if profile else 'Lagos'
ProfileLocation(profile) ==
    IF profile = PyNone THEN "Lagos" ELSE Get(profile, "location", "Lagos")

\* GET /lifestyle_chart_data
get_lifestyle_chart_data ==
    /\ request = NoCall
    /\ request' = [fn |-> "get_lifestyle_chart_data"]
    /\ UNCHANGED <<users_db, session, lifestyle_logs_db, log_id_counter, profileVars, paymentVars>>
    /\ IF ~LoggedIn(session)
       THEN response' = Unauthenticated
       ELSE LET logs == LifestyleLog_get_by_user_id(lifestyle_logs_db, session.user_id, 7)
                logs_sorted == SortedByDateAsc(logs)
            IN  response' = Response(200,
                    [ labels |-> [i \in 1..Len(logs_sorted) |-> logs_sorted[i].date],
                      sleep_data |-> [i \in 1..Len(logs_sorted) |-> logs_sorted[i].sleep_hours],
                      exercise_data |->
                          [i \in 1..Len(logs_sorted) |-> logs_sorted[i].exercise_minutes],
                      water_data |->
                          [i \in 1..Len(logs_sorted) |-> logs_sorted[i].water_glasses] ])

\* POST /get-tips; provider is how the weather request ends, outcome how the
\* AI request ends.
get_tips(provider, outcome) ==
    /\ request = NoCall
    /\ request' = [fn |-> "get_tips"]
    /\ UNCHANGED <<users_db, session, lifestyle_logs_db, log_id_counter, profileVars, paymentVars>>
    /\ IF ~LoggedIn(session)
       THEN response' = Unauthenticated
       ELSE LET user == User_get_by_id(users_db, session.user_id)
                profile == Profile_get_by_user_id(profiles_db, session.user_id)
                recent_logs == LifestyleLog_get_by_user_id(lifestyle_logs_db, session.user_id, 7)
                weather_data == get_weather_data(OPENWEATHER_API_KEY, provider,
                                                 ProfileLocation(profile))
            IN  response' = Response(200,
                    [tips |-> get_health_tips(openai_client, outcome, user, profile,
                                              recent_logs, weather_data)])

\* POST /chat
chat(data, outcome) ==
    /\ request = NoCall
    /\ request' = [fn |-> "chat", data |-> data]
    /\ UNCHANGED <<users_db, session, lifestyle_logs_db, log_id_counter, profileVars, paymentVars>>
    /\ IF ~LoggedIn(session)
       THEN response' = Unauthenticated
       ELSE IF "message" \notin DOMAIN data \/ data.message = <<>>
       THEN response' = Response(400, [error |-> "Message is required"])
       ELSE response' = Response(200,
                [response |-> chat_with_ai(openai_client, outcome, data.message)])

\* GET /weather
weather(query, provider) ==
    /\ request = NoCall
    /\ request' = [fn |-> "weather", query |-> query]
    /\ UNCHANGED <<users_db, session, lifestyle_logs_db, log_id_counter, profileVars, paymentVars>>
    /\ IF ~LoggedIn(session)
       THEN response' = Unauthenticated
       ELSE LET location ==
                    IF HasText(query, "location")
                    THEN query.location
                    ELSE ProfileLocation(Profile_get_by_user_id(profiles_db, session.user_id))
            IN  response' = Response(200,
                    get_weather_data(OPENWEATHER_API_KEY, provider, location))

\* GET /alerts
alerts(provider) ==
    /\ request = NoCall
    /\ request' = [fn |-> "alerts"]
    /\ UNCHANGED <<users_db, session, lifestyle_logs_db, log_id_counter, profileVars, paymentVars>>
    /\ IF ~LoggedIn(session)
       THEN response' = Unauthenticated
       ELSE LET user == User_get_by_id(users_db, session.user_id)
                profile == Profile_get_by_user_id(profiles_db, session.user_id)
                recent_logs == LifestyleLog_get_by_user_id(lifestyle_logs_db, session.user_id, 3)
                weather_data == get_weather_data(OPENWEATHER_API_KEY, provider,
                                                 ProfileLocation(profile))
            IN  response' = Response(200,
                    [alerts |-> get_health_alerts(user, profile, recent_logs, weather_data)])

(* auth.py: registration, and app.py: the pages *)

\* User.create(name, email, password_hash): users_db afterwards; user_id comes
\* from get_next_user_id()
User_create(db, user_id, name, email, password_hash) ==
    [ u \in DOMAIN db \cup {user_id} |->
        IF u = user_id
        THEN [ id |-> user_id, name |-> name, email |-> email,
               password_hash |-> password_hash, is_premium |-> FALSE ]
        ELSE db[u] ]

required_fields ==
    {"name", "email", "password", "age", "gender", "location", "exercise_frequency",
     "sleep_hours", "diet_type"}

\* Mutant: the numbers are converted before the user is created.
register_convert_first(data) ==
    /\ request = NoCall
    /\ request' = [fn |-> "register", data |-> data]
    /\ UNCHANGED <<lifestyle_logs_db, log_id_counter, paymentVars>>
    /\ IF ~(required_fields \subseteq DOMAIN data)
       THEN /\ response' = Response(400, [error |-> "Missing required field"])
            /\ UNCHANGED <<users_db, user_id_counter, profiles_db, session>>
       ELSE IF User_get_by_email(users_db, data.email) # {}
       THEN /\ response' = Response(400, [error |-> "Email already registered"])
            /\ UNCHANGED <<users_db, user_id_counter, profiles_db, session>>
       ELSE LET user_id == user_id_counter
                age == ToNumber(data.age)
                sleep_hours == ToNumber(data.sleep_hours)
            IN  IF age.raised \/ sleep_hours.raised
                THEN /\ response' = Response(500, [error |-> "Registration failed"])
                     /\ UNCHANGED <<users_db, user_id_counter, profiles_db, session>>
                ELSE /\ users_db' = User_create(users_db, user_id, data.name, data.email,
                                                generate_password_hash(data.password))
                     /\ user_id_counter' = user_id_counter + 1
                     /\ profiles_db' = Profile_create_or_update(profiles_db, user_id,
                                           age.value, data.gender, data.location,
                                           data.exercise_frequency, sleep_hours.value,
                                           data.diet_type)
                     /\ session' = [user_id |-> user_id, user_email |-> data.email]
                     /\ response' = Response(201, [user_id |-> user_id])

\* POST /register.  User.create (line 39) runs before int(data['age']) and
\* float(data['sleep_hours']) are evaluated for Profile.create_or_update
\* (lines 42-50); what they raise is caught at line 59.
register(data) ==
    /\ request = NoCall
    /\ request' = [fn |-> "register", data |-> data]
    /\ UNCHANGED <<lifestyle_logs_db, log_id_counter, paymentVars>>
    /\ IF ~(required_fields \subseteq DOMAIN data)
       THEN /\ response' = Response(400, [error |-> "Missing required field"])
            /\ UNCHANGED <<users_db, user_id_counter, profiles_db, session>>
       ELSE IF User_get_by_email(users_db, data.email) # {}
       THEN /\ response' = Response(400, [error |-> "Email already registered"])
            /\ UNCHANGED <<users_db, user_id_counter, profiles_db, session>>
       ELSE LET user_id == user_id_counter
                age == ToNumber(data.age)
                sleep_hours == ToNumber(data.sleep_hours)
            IN  /\ users_db' = User_create(users_db, user_id, data.name, data.email,
                                           generate_password_hash(data.password))
                /\ user_id_counter' = user_id_counter + 1
                /\ IF age.raised \/ sleep_hours.raised
                   THEN /\ response' = Response(500, [error |-> "Registration failed"])
                        /\ UNCHANGED <<profiles_db, session>>
                   ELSE /\ profiles_db' = Profile_create_or_update(profiles_db, user_id,
                                              age.value, data.gender, data.location,
                                              data.exercise_frequency, sleep_hours.value,
                                              data.diet_type)
                        /\ session' = [user_id |-> user_id, user_email |-> data.email]
                        /\ response' = Response(201, [user_id |-> user_id])

\* GET /dashboard, /profile, /lifestyle, /chat, /premium: the pages behind
\* require_login; they read the stores and render a template.
page(name) ==
    /\ request = NoCall
    /\ request' = [fn |-> "page", name |-> name]
    /\ UNCHANGED <<users_db, session, lifestyle_logs_db, log_id_counter, profileVars, paymentVars>>
    /\ IF ~LoggedIn(session)
       THEN response' = Unauthenticated
       ELSE response' = Response(200, [template |-> name])

\* The client has the response; the next request starts afresh.
HttpReturn ==
    /\ request # NoCall
    /\ request' = NoCall
    /\ response' = NoResult
    /\ UNCHANGED <<users_db, session, lifestyle_logs_db, log_id_counter, profileVars, paymentVars>>

(* Inputs of the handlers *)

MaxStoredLogs == 3

Date1 == <<"2", "0", "2", "4", "-", "0", "1", "-", "0", "5">>
Date2 == <<"2", "0", "2", "4", "-", "0", "1", "-", "1", "0">>
Date3 == <<"2", "0", "2", "4", "-", "0", "2", "-", "0", "1">>
Dates == {Date1, Date2, Date3}

\* Two registered users, as two successful registrations leave them.
RegisteredUsers ==
    [ u \in {1, 2} |->
        IF u = 1
        THEN [ id |-> 1, name |-> "Ada", email |-> "ada@example.com",
               password_hash |-> generate_password_hash("ada-pw"), is_premium |-> FALSE ]
        ELSE [ id |-> 2, name |-> "Bola", email |-> "bola@example.com",
               password_hash |-> generate_password_hash("bola-pw"), is_premium |-> FALSE ] ]

\* Their profiles.  The registration of the second user ended at
\* int(data['age']) with a 500, after User.create (auth.py line 39) and before
\* Profile.create_or_update (line 42): that user has no profile.
RegisteredProfiles ==
    [ u \in {1} |->
        [ user_id |-> 1, age |-> 30, gender |-> "female", location |-> "Lagos",
          exercise_frequency |-> "daily", sleep_hours |-> 7, diet_type |-> "vegan" ] ]

LoginInputs ==
    { [email |-> "ada@example.com", password |-> "ada-pw"],
      [email |-> "bola@example.com", password |-> "bola-pw"],
      [email |-> "ada@example.com", password |-> "bola-pw"],
      [email |-> "eve@example.com", password |-> "ada-pw"],
      [email |-> "ada@example.com"] }

LogInputsWithDate ==
    { [ date |-> d, sleep_hours |-> PyInt(8), exercise_minutes |-> PyInt(45),
        water_glasses |-> PyInt(9), meals |-> "rice and beans" ] : d \in Dates }
    \cup { [ date |-> Date2, sleep_hours |-> PyInt(-1), exercise_minutes |-> PyInt(-5),
             water_glasses |-> PyInt(-2), meals |-> "", notes |-> "typo" ] }

LogLifestyleInputs ==
    LogInputsWithDate
    \cup { [ sleep_hours |-> PyInt(8), exercise_minutes |-> PyInt(45),
             water_glasses |-> PyInt(9), meals |-> "rice and beans" ],
           [ date |-> Date1, sleep_hours |-> PyInt(8), exercise_minutes |-> PyInt(45),
             water_glasses |-> PyInt(9) ],
           [ date |-> Date1, sleep_hours |-> PyStr("a lot"), exercise_minutes |-> PyInt(45),
             water_glasses |-> PyInt(9), meals |-> "rice and beans" ] }

LifestyleQueries ==
    { EmptyDict, [limit |-> PyStr("all")] }
    \cup { [limit |-> PyInt(n)] : n \in {-1, 0, 1, 2} }

\* Bodies of PUT /profile: every field, one field, no field, and numbers that
\* are no numbers.
ProfileInputs ==
    { [ age |-> PyInt(41), gender |-> "male", location |-> "Abuja",
        exercise_frequency |-> "weekly", sleep_hours |-> PyInt(6), diet_type |-> "keto" ],
      [ location |-> "Kano" ],
      EmptyDict,
      [ age |-> PyStr("forty"), location |-> "Kano" ],
      [ age |-> PyInt(22), sleep_hours |-> PyStr("eight") ] }

(* Inputs of the payment handlers *)

MaxPayments == 1

Tokens == {"a3f19c0e", "77b2d4c6"}

\* A token that secrets.token_hex(8) has not given yet.
FreshTokens == { t \in Tokens : \A p \in AllPayments(payments_db) : p.reference[3] # t }

PayInputs == { EmptyDict, [amount |-> PyStr("lots")] }

GatewayError == [kind |-> "error"]
GatewayResponse(status_code, json) ==
    [kind |-> "response", status_code |-> status_code, json |-> json]

InitializeOutcomes ==
    { GatewayError,
      GatewayResponse(200, [status |-> TRUE, message |-> "Authorization URL created"]),
      GatewayResponse(401, [status |-> FALSE, message |-> "Invalid key"]) }

\* The references a client can send: those of the stored payments and one
\* that no payment has.
KnownReferences == { p.reference : p \in AllPayments(payments_db) }
UnknownReference == Reference(7, "00000000")

VerifyQueries ==
    { EmptyDict }
    \cup { [reference |-> r] : r \in KnownReferences \cup {UnknownReference} }
    \cup { [reference |-> r, mock |-> <<"t", "r", "u", "e">>] :
               r \in KnownReferences \cup {UnknownReference} }
    \cup { [reference |-> r, mock |-> <<"T", "r", "u", "e">>] : r \in KnownReferences }
    \cup { [reference |-> r, mock |-> <<"1">>] : r \in KnownReferences }

VerifyOutcomes(query) ==
    { GatewayError,
      GatewayResponse(401, [status |-> FALSE, message |-> "Invalid key"]),
      GatewayResponse(200, [status |-> TRUE]) }
    \cup { GatewayResponse(200, [status |-> TRUE,
                                 data |-> [status |-> s, reference |-> query.reference]]) :
               s \in IF "reference" \in DOMAIN query THEN {"success", "abandoned"} ELSE {} }

WebhookEvents ==
    { EmptyDict }
    \cup { [event |-> e, data |-> [reference |-> r]] :
               e \in {"charge.success", "transfer.failed"},
               r \in KnownReferences \cup {UnknownReference} }

(* Inputs of the whole application *)

MaxAppLogs == 2

\* Logs stored while the session checks are exercised.
MaxAuthLogs == 1

AppLogInputs ==
    { [ date |-> Date2, sleep_hours |-> PyInt(8), exercise_minutes |-> PyInt(45),
        water_glasses |-> PyInt(9), meals |-> "rice and beans" ],
      [ sleep_hours |-> PyInt(5), exercise_minutes |-> PyInt(90),
        water_glasses |-> PyInt(3), meals |-> "yam", notes |-> "long run" ],
      [ sleep_hours |-> PyInt(8) ] }

AppQueries == { EmptyDict, [limit |-> PyInt(1)] }

AppProviderOutcomes ==
    { [kind |-> "exception"],
      [ kind |-> "response", status_code |-> 200,
        data |-> [ name |-> "Lagos", sys |-> [country |-> "NG"],
                   main |-> [temp |-> 32 * Scale + 1, feels_like |-> 35 * Scale + 1,
                             humidity |-> 81],
                   weather |-> <<[main |-> TextClear, description |-> TextClearSky]>> ] ] }

AppTipsOutcomes ==
    { [kind |-> "error"],
      [kind |-> "content", content |-> PyText(Json(PyDict([tips |-> PyList(Take(AiTips, 3))])))] }

AppChatInputs == { [message |-> MsgCantSleep], EmptyDict }

AppChatOutcomes ==
    { [kind |-> "error"],
      [kind |-> "content", content |-> PyStr("Try a short walk after dinner.")] }

AppWeatherQueries == { EmptyDict, [location |-> "Abuja"] }

AppProfileInputs == { [location |-> "Kano"], [age |-> PyStr("forty")] }

\* One payment at most is started: secrets.token_hex(8) gives this token.
AppTokens == { "a3f19c0e" }

AppVerifyQueries ==
    { [reference |-> r, mock |-> <<"t", "r", "u", "e">>] : r \in KnownReferences }

AppWebhookEvents ==
    { [event |-> "charge.success", data |-> [reference |-> r]] : r \in KnownReferences }

(* Inputs of registration and of the session checks *)

RegisterAda ==
    [ name |-> "Ada", email |-> "ada@example.com", password |-> "ada-pw", age |-> PyInt(30),
      gender |-> "female", location |-> "Lagos", exercise_frequency |-> "daily",
      sleep_hours |-> PyInt(7), diet_type |-> "vegan" ]

RegisterBola ==
    [ name |-> "Bola", email |-> "bola@example.com", password |-> "bola-pw",
      age |-> PyInt(44), gender |-> "male", location |-> "Abuja",
      exercise_frequency |-> "weekly", sleep_hours |-> PyInt(6), diet_type |-> "balanced" ]

\* Bodies of POST /register: two valid ones, an age and a sleep_hours that are
\* no numbers, and a body without diet_type.
RegisterInputs ==
    { RegisterAda,
      RegisterBola,
      [RegisterAda EXCEPT !.age = PyStr("thirty")],
      [RegisterBola EXCEPT !.sleep_hours = PyStr("six")],
      [ f \in required_fields \ {"diet_type"} |-> RegisterBola[f] ] }

Pages == {"dashboard", "profile", "lifestyle", "chat", "premium"}

AuthLogInput ==
    [ date |-> Date2, sleep_hours |-> PyInt(8), exercise_minutes |-> PyInt(45),
      water_glasses |-> PyInt(9), meals |-> "rice and beans" ]

AuthLoginInputs ==
    { [email |-> "ada@example.com", password |-> "ada-pw"],
      [email |-> "bola@example.com", password |-> "bola-pw"],
      [email |-> "ada@example.com", password |-> "bola-pw"] }

----------------------------------------------------------------------------
(* The AI gateway on its own: the other components are at rest. *)

WeatherAtRest ==
    /\ OPENWEATHER_API_KEY = FALSE
    /\ wcall = NoCall
    /\ wresult = NoResult

StoreAtRest ==
    /\ users_db = EmptyDict
    /\ user_id_counter = 1
    /\ lifestyle_logs_db = EmptyDict
    /\ log_id_counter = 1
    /\ session = EmptyDict
    /\ request = NoCall
    /\ response = NoResult
    /\ profiles_db = EmptyDict

PaymentsAtRest ==
    /\ PAYSTACK_SECRET_KEY = FALSE
    /\ payments_db = EmptyDict
    /\ payment_id_counter = 1

\* No request thread is inside LifestyleLog.create.
ThreadsAtRest == create_calls = EmptyDict

GatewayAtRest ==
    /\ openai_client = FALSE
    /\ pc = "idle"
    /\ op = "none"
    /\ args = NoArgs
    /\ attempts = 0
    /\ completion = NoOutcome
    /\ result = NoResult

InitGateway ==
    /\ openai_client \in BOOLEAN
    /\ pc = "idle"
    /\ op = "none"
    /\ args = NoArgs
    /\ attempts = 0
    /\ completion = NoOutcome
    /\ result = NoResult
    /\ WeatherAtRest
    /\ StoreAtRest
    /\ PaymentsAtRest
    /\ ThreadsAtRest

NextGateway ==
    \/ /\ pc = "idle"
       /\ \E recent_logs \in LogInputs, weather_data \in TipWeatherInputs :
              CallGetHealthTips(SampleUser, SampleProfile, recent_logs, weather_data)
       /\ UNCHANGED <<weatherVars, storeVars, profileVars, paymentVars, threadVars,
                    registrationVars>>
    \/ /\ pc = "request_sent"
       /\ \E o \in TipsOutcomes : CompleteGetHealthTips(o)
       /\ UNCHANGED <<weatherVars, storeVars, profileVars, paymentVars, threadVars,
                    registrationVars>>
    \/ /\ pc = "idle"
       /\ \E message \in Messages, recent_logs \in ChatLogInputs :
              CallChatWithAi(message, SampleUser, SampleProfile, recent_logs)
       /\ UNCHANGED <<weatherVars, storeVars, profileVars, paymentVars, threadVars,
                    registrationVars>>
    \/ /\ pc = "request_sent"
       /\ \E o \in ChatOutcomes : CompleteChatWithAi(o)
       /\ UNCHANGED <<weatherVars, storeVars, profileVars, paymentVars, threadVars,
                    registrationVars>>
    \/ /\ GatewayReturn
       /\ UNCHANGED <<weatherVars, storeVars, profileVars, paymentVars, threadVars,
                    registrationVars>>

SpecGateway == InitGateway /\ [][NextGateway]_vars

----------------------------------------------------------------------------
(* The weather functions on their own *)

InitWeather ==
    /\ OPENWEATHER_API_KEY \in BOOLEAN
    /\ wcall = NoCall
    /\ wresult = NoResult
    /\ GatewayAtRest
    /\ StoreAtRest
    /\ PaymentsAtRest
    /\ ThreadsAtRest

NextWeather ==
    \/ /\ wcall = NoCall
       /\ \E location \in Locations, provider \in ProviderOutcomes :
              GetWeatherData(location, provider)
       /\ UNCHANGED <<gatewayVars, storeVars, profileVars, paymentVars, threadVars,
                    registrationVars>>
    \/ /\ wcall = NoCall
       /\ \E recent_logs \in AlertLogInputs, weather_data \in AlertWeatherInputs :
              GetHealthAlerts(SampleUser, SampleProfile, recent_logs, weather_data)
       /\ UNCHANGED <<gatewayVars, storeVars, profileVars, paymentVars, threadVars,
                    registrationVars>>
    \/ /\ WeatherReturn
       /\ UNCHANGED <<gatewayVars, storeVars, profileVars, paymentVars, threadVars,
                    registrationVars>>

SpecWeather == InitWeather /\ [][NextWeather]_vars

----------------------------------------------------------------------------
(* The lifestyle log of two registered users *)

InitLogs ==
    /\ users_db = RegisteredUsers
    /\ user_id_counter = 3
    /\ lifestyle_logs_db = EmptyDict
    /\ log_id_counter = 1
    /\ session = EmptyDict
    /\ request = NoCall
    /\ response = NoResult
    /\ profiles_db = RegisteredProfiles
    /\ GatewayAtRest
    /\ WeatherAtRest
    /\ PaymentsAtRest
    /\ ThreadsAtRest

NextLogs ==
    \/ /\ \E data \in LoginInputs : login(data)
       /\ UNCHANGED <<gatewayVars, weatherVars, threadVars, registrationVars>>
    \/ /\ logout
       /\ UNCHANGED <<gatewayVars, weatherVars, threadVars, registrationVars>>
    \/ /\ request = NoCall
       /\ log_id_counter <= MaxStoredLogs
       /\ \E data \in LogLifestyleInputs, today \in Dates : log_lifestyle(data, today)
       /\ UNCHANGED <<gatewayVars, weatherVars, threadVars, registrationVars>>
    \/ /\ request = NoCall
       /\ \E query \in LifestyleQueries : get_lifestyle(query)
       /\ UNCHANGED <<gatewayVars, weatherVars, threadVars, registrationVars>>
    \/ /\ HttpReturn
       /\ UNCHANGED <<gatewayVars, weatherVars, threadVars, registrationVars>>

SpecLogs == InitLogs /\ [][NextLogs]_vars

----------------------------------------------------------------------------
(* The profiles of two registered users *)

InitProfiles ==
    /\ users_db = RegisteredUsers
    /\ user_id_counter = 3
    /\ profiles_db = RegisteredProfiles
    /\ lifestyle_logs_db = EmptyDict
    /\ log_id_counter = 1
    /\ session = EmptyDict
    /\ request = NoCall
    /\ response = NoResult
    /\ GatewayAtRest
    /\ WeatherAtRest
    /\ PaymentsAtRest
    /\ ThreadsAtRest

NextProfiles ==
    \/ /\ \E data \in LoginInputs : login(data)
       /\ UNCHANGED <<gatewayVars, weatherVars, threadVars, registrationVars>>
    \/ /\ logout
       /\ UNCHANGED <<gatewayVars, weatherVars, threadVars, registrationVars>>
    \/ /\ get_profile
       /\ UNCHANGED <<gatewayVars, weatherVars, threadVars, registrationVars>>
    \/ /\ \E data \in ProfileInputs : update_profile(data)
       /\ UNCHANGED <<gatewayVars, weatherVars, threadVars, registrationVars>>
    \/ /\ HttpReturn
       /\ UNCHANGED <<gatewayVars, weatherVars, threadVars, registrationVars>>

SpecProfiles == InitProfiles /\ [][NextProfiles]_vars

----------------------------------------------------------------------------
(* The payments of two registered users *)

InitPayments ==
    /\ users_db = RegisteredUsers
    /\ user_id_counter = 3
    /\ profiles_db = RegisteredProfiles
    /\ lifestyle_logs_db = EmptyDict
    /\ log_id_counter = 1
    /\ session = EmptyDict
    /\ request = NoCall
    /\ response = NoResult
    /\ PAYSTACK_SECRET_KEY \in BOOLEAN
    /\ payments_db = EmptyDict
    /\ payment_id_counter = 1
    /\ GatewayAtRest
    /\ WeatherAtRest
    /\ ThreadsAtRest

NextPayments ==
    \/ /\ \E data \in LoginInputs : login(data)
       /\ UNCHANGED <<gatewayVars, weatherVars, threadVars, registrationVars>>
    \/ /\ logout
       /\ UNCHANGED <<gatewayVars, weatherVars, threadVars, registrationVars>>
    \/ /\ request = NoCall
       /\ payment_id_counter <= MaxPayments
       /\ \E data \in PayInputs, token \in FreshTokens, gateway \in InitializeOutcomes :
              initialize_payment(data, token, gateway)
       /\ UNCHANGED <<gatewayVars, weatherVars, threadVars, registrationVars>>
    \/ /\ request = NoCall
       /\ \E query \in VerifyQueries : \E gateway \in VerifyOutcomes(query) :
              verify_payment(query, gateway)
       /\ UNCHANGED <<gatewayVars, weatherVars, threadVars, registrationVars>>
    \/ /\ request = NoCall
       /\ \E event_data \in WebhookEvents : paystack_webhook(event_data)
       /\ UNCHANGED <<gatewayVars, weatherVars, threadVars, registrationVars>>
    \/ /\ HttpReturn
       /\ UNCHANGED <<gatewayVars, weatherVars, threadVars, registrationVars>>

SpecPayments == InitPayments /\ [][NextPayments]_vars

----------------------------------------------------------------------------
(* The whole application: every handler, with the AI, weather and payment
   credentials configured *)

InitApp ==
    /\ users_db = RegisteredUsers
    /\ user_id_counter = 3
    /\ profiles_db = RegisteredProfiles
    /\ lifestyle_logs_db = EmptyDict
    /\ log_id_counter = 1
    /\ session = EmptyDict
    /\ request = NoCall
    /\ response = NoResult
    /\ PAYSTACK_SECRET_KEY = TRUE
    /\ payments_db = EmptyDict
    /\ payment_id_counter = 1
    /\ openai_client = TRUE
    /\ pc = "idle"
    /\ op = "none"
    /\ args = NoArgs
    /\ attempts = 0
    /\ completion = NoOutcome
    /\ result = NoResult
    /\ OPENWEATHER_API_KEY = TRUE
    /\ wcall = NoCall
    /\ wresult = NoResult
    /\ ThreadsAtRest

NextApp ==
    \/ /\ \E data \in LoginInputs : login(data)
       /\ UNCHANGED <<gatewayVars, weatherVars, threadVars, registrationVars>>
    \/ /\ logout
       /\ UNCHANGED <<gatewayVars, weatherVars, threadVars, registrationVars>>
    \/ /\ request = NoCall
       /\ log_id_counter <= MaxAppLogs
       /\ \E data \in AppLogInputs : log_lifestyle(data, Date3)
       /\ UNCHANGED <<gatewayVars, weatherVars, threadVars, registrationVars>>
    \/ /\ request = NoCall
       /\ \E query \in AppQueries : get_lifestyle(query)
       /\ UNCHANGED <<gatewayVars, weatherVars, threadVars, registrationVars>>
    \/ /\ get_lifestyle_chart_data
       /\ UNCHANGED <<gatewayVars, weatherVars, threadVars, registrationVars>>
    \/ /\ request = NoCall
       /\ \E provider \in AppProviderOutcomes, outcome \in AppTipsOutcomes :
              get_tips(provider, outcome)
       /\ UNCHANGED <<gatewayVars, weatherVars, threadVars, registrationVars>>
    \/ /\ request = NoCall
       /\ \E data \in AppChatInputs, outcome \in AppChatOutcomes : chat(data, outcome)
       /\ UNCHANGED <<gatewayVars, weatherVars, threadVars, registrationVars>>
    \/ /\ request = NoCall
       /\ \E query \in AppWeatherQueries, provider \in AppProviderOutcomes :
              weather(query, provider)
       /\ UNCHANGED <<gatewayVars, weatherVars, threadVars, registrationVars>>
    \/ /\ request = NoCall
       /\ \E provider \in AppProviderOutcomes : alerts(provider)
       /\ UNCHANGED <<gatewayVars, weatherVars, threadVars, registrationVars>>
    \/ /\ get_profile
       /\ UNCHANGED <<gatewayVars, weatherVars, threadVars, registrationVars>>
    \/ /\ request = NoCall
       /\ \E data \in AppProfileInputs : update_profile(data)
       /\ UNCHANGED <<gatewayVars, weatherVars, threadVars, registrationVars>>
    \/ /\ request = NoCall
       /\ \E token \in FreshTokens \cap AppTokens :
              initialize_payment(EmptyDict, token,
                  GatewayResponse(200, [status |-> TRUE, message |-> "Authorization URL created"]))
       /\ UNCHANGED <<gatewayVars, weatherVars, threadVars, registrationVars>>
    \/ /\ request = NoCall
       /\ \E query \in AppVerifyQueries : verify_payment(query, NotCalled)
       /\ UNCHANGED <<gatewayVars, weatherVars, threadVars, registrationVars>>
    \/ /\ request = NoCall
       /\ \E event_data \in AppWebhookEvents : paystack_webhook(event_data)
       /\ UNCHANGED <<gatewayVars, weatherVars, threadVars, registrationVars>>
    \/ /\ HttpReturn
       /\ UNCHANGED <<gatewayVars, weatherVars, threadVars, registrationVars>>

SpecApp == InitApp /\ [][NextApp]_vars

----------------------------------------------------------------------------
(* Request threads inside LifestyleLog.create.  The development server runs
   each request on a thread of its own and models.py takes no lock, so the
   statements of get_next_log_id and of create interleave. *)

MaxThreads == 2

Threads == 1..MaxThreads

\* The thread is at the given place of the code.
At(t, place) == t \in DOMAIN create_calls /\ create_calls[t].pc = place

\* A request thread calls LifestyleLog.create(user_id, ...) and is about to
\* run get_next_log_id.
CreateCall(t, user_id) ==
    /\ t \notin DOMAIN create_calls
    /\ create_calls' =
           [ u \in DOMAIN create_calls \cup {t} |->
               IF u = t
               THEN [pc |-> "line 28", user_id |-> user_id, current_id |-> 0, loaded |-> 0]
               ELSE create_calls[u] ]
    /\ UNCHANGED <<lifestyle_logs_db, log_id_counter>>

\* get_next_log_id, line 28: current_id = log_id_counter
GetNextLogIdCurrent(t) ==
    /\ At(t, "line 28")
    /\ create_calls' = [create_calls EXCEPT ![t].pc = "line 29",
                                            ![t].current_id = log_id_counter]
    /\ UNCHANGED <<lifestyle_logs_db, log_id_counter>>

\* line 29, log_id_counter += 1: the global is read ...
GetNextLogIdLoad(t) ==
    /\ At(t, "line 29")
    /\ create_calls' = [create_calls EXCEPT ![t].pc = "line 29 store",
                                            ![t].loaded = log_id_counter]
    /\ UNCHANGED <<lifestyle_logs_db, log_id_counter>>

\* ... and written, one more; line 30 returns current_id to line 91.
GetNextLogIdStore(t) ==
    /\ At(t, "line 29 store")
    /\ log_id_counter' = create_calls[t].loaded + 1
    /\ create_calls' = [create_calls EXCEPT ![t].pc = "line 93"]
    /\ UNCHANGED lifestyle_logs_db

\* create, line 93: if user_id not in lifestyle_logs_db
CreateCheckUser(t) ==
    /\ At(t, "line 93")
    /\ create_calls' =
           [create_calls EXCEPT ![t].pc =
               IF create_calls[t].user_id \notin DOMAIN lifestyle_logs_db
               THEN "line 94" ELSE "line 96"]
    /\ UNCHANGED <<lifestyle_logs_db, log_id_counter>>

\* line 94: lifestyle_logs_db[user_id] = []
CreateInitList(t) ==
    /\ At(t, "line 94")
    /\ lifestyle_logs_db' =
           [ u \in DOMAIN lifestyle_logs_db \cup {create_calls[t].user_id} |->
               IF u = create_calls[t].user_id THEN <<>> ELSE lifestyle_logs_db[u] ]
    /\ create_calls' = [create_calls EXCEPT ![t].pc = "line 96"]
    /\ UNCHANGED log_id_counter

\* lines 96-106: lifestyle_logs_db[user_id].append({...})
CreateAppend(t) ==
    /\ At(t, "line 96")
    /\ lifestyle_logs_db' =
           LifestyleLog_create(lifestyle_logs_db, create_calls[t].current_id,
               create_calls[t].user_id, Date1, 8, 45, 9, "rice and beans", "")
    /\ create_calls' = [create_calls EXCEPT ![t].pc = "line 108"]
    /\ UNCHANGED log_id_counter

\* line 108: return log_id
CreateReturn(t) ==
    /\ At(t, "line 108")
    /\ create_calls' = [create_calls EXCEPT ![t].pc = "done"]
    /\ UNCHANGED <<lifestyle_logs_db, log_id_counter>>

InitConcurrentCreate ==
    /\ users_db = RegisteredUsers
    /\ user_id_counter = 3
    /\ profiles_db = RegisteredProfiles
    /\ lifestyle_logs_db = EmptyDict
    /\ log_id_counter = 1
    /\ session = EmptyDict
    /\ request = NoCall
    /\ response = NoResult
    /\ create_calls = EmptyDict
    /\ GatewayAtRest
    /\ WeatherAtRest
    /\ PaymentsAtRest

RestUnchanged ==
    UNCHANGED <<gatewayVars, weatherVars, profileVars, paymentVars, registrationVars,
                users_db, session, request, response>>

NextConcurrentCreate ==
    \/ \E t \in Threads, user_id \in DOMAIN users_db : CreateCall(t, user_id) /\ RestUnchanged
    \/ \E t \in Threads : GetNextLogIdCurrent(t) /\ RestUnchanged
    \/ \E t \in Threads : GetNextLogIdLoad(t) /\ RestUnchanged
    \/ \E t \in Threads : GetNextLogIdStore(t) /\ RestUnchanged
    \/ \E t \in Threads : CreateCheckUser(t) /\ RestUnchanged
    \/ \E t \in Threads : CreateInitList(t) /\ RestUnchanged
    \/ \E t \in Threads : CreateAppend(t) /\ RestUnchanged
    \/ \E t \in Threads : CreateReturn(t) /\ RestUnchanged

SpecConcurrentCreate == InitConcurrentCreate /\ [][NextConcurrentCreate]_vars

----------------------------------------------------------------------------
(* The two rule engines without their external services: the tip generator
   and the alert generator, called with log lists longer than their windows *)

InitRules ==
    /\ GatewayAtRest
    /\ WeatherAtRest
    /\ StoreAtRest
    /\ PaymentsAtRest
    /\ ThreadsAtRest

NextRules ==
    \/ /\ pc = "idle" /\ wcall = NoCall
       /\ \E recent_logs \in LogInputs, weather_data \in TipWeatherInputs :
              CallGetHealthTips(SampleUser, SampleProfile, recent_logs, weather_data)
       /\ UNCHANGED <<weatherVars, storeVars, profileVars, paymentVars, threadVars,
                    registrationVars>>
    \/ /\ GatewayReturn
       /\ UNCHANGED <<weatherVars, storeVars, profileVars, paymentVars, threadVars,
                    registrationVars>>
    \/ /\ pc = "idle" /\ wcall = NoCall
       /\ \E recent_logs \in AlertLogInputs, weather_data \in AlertWeatherInputs :
              GetHealthAlerts(SampleUser, SampleProfile, recent_logs, weather_data)
       /\ UNCHANGED <<gatewayVars, storeVars, profileVars, paymentVars, threadVars,
                    registrationVars>>
    \/ /\ WeatherReturn
       /\ UNCHANGED <<gatewayVars, storeVars, profileVars, paymentVars, threadVars,
                    registrationVars>>

SpecRules == InitRules /\ [][NextRules]_vars

----------------------------------------------------------------------------
(* Registration, login and logout from the empty stores, with every handler
   behind require_login *)

InitAuth ==
    /\ StoreAtRest
    /\ PAYSTACK_SECRET_KEY = TRUE
    /\ payments_db = EmptyDict
    /\ payment_id_counter = 1
    /\ GatewayAtRest
    /\ WeatherAtRest
    /\ ThreadsAtRest

NextAuth ==
    \/ /\ request = NoCall
       /\ \E data \in RegisterInputs : register(data)
       /\ UNCHANGED <<gatewayVars, weatherVars, threadVars>>
    \/ /\ \E data \in AuthLoginInputs : login(data)
       /\ UNCHANGED <<gatewayVars, weatherVars, threadVars, registrationVars>>
    \/ /\ logout
       /\ UNCHANGED <<gatewayVars, weatherVars, threadVars, registrationVars>>
    \/ /\ get_profile
       /\ UNCHANGED <<gatewayVars, weatherVars, threadVars, registrationVars>>
    \/ /\ request = NoCall
       /\ \E data \in AppProfileInputs : update_profile(data)
       /\ UNCHANGED <<gatewayVars, weatherVars, threadVars, registrationVars>>
    \/ /\ request = NoCall
       /\ log_id_counter <= MaxAuthLogs
       /\ log_lifestyle(AuthLogInput, Date3)
       /\ UNCHANGED <<gatewayVars, weatherVars, threadVars, registrationVars>>
    \/ /\ get_lifestyle(EmptyDict)
       /\ UNCHANGED <<gatewayVars, weatherVars, threadVars, registrationVars>>
    \/ /\ get_lifestyle_chart_data
       /\ UNCHANGED <<gatewayVars, weatherVars, threadVars, registrationVars>>
    \/ /\ get_tips([kind |-> "exception"], [kind |-> "error"])
       /\ UNCHANGED <<gatewayVars, weatherVars, threadVars, registrationVars>>
    \/ /\ chat([message |-> MsgCantSleep], [kind |-> "error"])
       /\ UNCHANGED <<gatewayVars, weatherVars, threadVars, registrationVars>>
    \/ /\ weather(EmptyDict, [kind |-> "exception"])
       /\ UNCHANGED <<gatewayVars, weatherVars, threadVars, registrationVars>>
    \/ /\ alerts([kind |-> "exception"])
       /\ UNCHANGED <<gatewayVars, weatherVars, threadVars, registrationVars>>
    \/ /\ request = NoCall
       /\ \E token \in FreshTokens \cap AppTokens :
              initialize_payment(EmptyDict, token,
                  GatewayResponse(200, [status |-> TRUE, message |-> "Authorization URL created"]))
       /\ UNCHANGED <<gatewayVars, weatherVars, threadVars, registrationVars>>
    \/ /\ request = NoCall
       /\ \E query \in { [reference |-> r] : r \in KnownReferences \cup {UnknownReference} } :
              verify_payment(query,
                  GatewayResponse(200, [status |-> TRUE,
                                        data |-> [status |-> "success",
                                                  reference |-> query.reference]]))
       /\ UNCHANGED <<gatewayVars, weatherVars, threadVars, registrationVars>>
    \/ /\ request = NoCall
       /\ \E name \in Pages : page(name)
       /\ UNCHANGED <<gatewayVars, weatherVars, threadVars, registrationVars>>
    \/ /\ HttpReturn
       /\ UNCHANGED <<gatewayVars, weatherVars, threadVars, registrationVars>>

SpecAuth == InitAuth /\ [][NextAuth]_vars

----------------------------------------------------------------------------
(* Properties of the AI gateway, checked under SpecGateway *)

TipsArgsFallback ==
    get_fallback_health_tips(args.user, args.profile, args.recent_logs, args.weather_data)

\* The AI could not be used for tips: no client, the call raised, the response
\* had no choice or no content, the content is not JSON, or the JSON is not an
\* object with a 'tips' key.
TipsAiUnusable ==
    \/ ~openai_client
    \/ completion.kind \in {"error", "no_choices"}
    \/ /\ completion.kind = "content"
       /\ \/ completion.content \in {PyNone, PyStr("")}
          \/ /\ completion.content.t = "text"
             /\ \/ ~completion.content.doc.json
                \/ /\ completion.content.doc.json
                   /\ \/ completion.content.doc.value.t # "dict"
                      \/ /\ completion.content.doc.value.t = "dict"
                         /\ "tips" \notin DOMAIN completion.content.doc.value.d

\* C1: whenever the AI is not usable for get_health_tips, get_health_tips
\* returns exactly the list get_fallback_health_tips returns for the same
\* inputs, and raises nothing.
C1_FallbackEquivalence ==
    (pc = "done" /\ op = "tips" /\ TipsAiUnusable)
        => /\ result # PyRaise
           /\ result = PyList(TipsArgsFallback)

\* C1 witness: with a client configured, a JSON object without 'tips' came
\* back for a non-empty log window and the fallback list was returned.
C1_Witness ==
    /\ pc = "done" /\ op = "tips" /\ openai_client
    /\ completion = [kind |-> "content", content |-> PyText(Json(PyDict(EmptyDict)))]
    /\ Len(args.recent_logs) = 3
    /\ result = PyList(TipsArgsFallback)

\* C2 (as claimed): for every gateway outcome get_health_tips returns a
\* sequence of at most 5 tips.
C2_AtMostFiveTips ==
    (pc = "done" /\ op = "tips") => (result.t = "list" /\ Len(result.items) <= 5)

\* C3: for every log window and every weather input the rule-based tip
\* generator returns between 1 and 5 tips.
C3_FallbackOneToFive ==
    (op = "tips") =>
        /\ Len(TipsArgsFallback) >= 1
        /\ Len(TipsArgsFallback) <= 5
        /\ (pc = "done" /\ ~openai_client) => result = PyList(TipsArgsFallback)

\* C3 witness: the generator ran on an empty log history without weather.
C3_Witness ==
    /\ pc = "done" /\ op = "tips" /\ ~openai_client
    /\ args.recent_logs = <<>>
    /\ args.weather_data = EmptyDict
    /\ result.t = "list" /\ Len(result.items) = 5

\* The sum of field f over the entries 1..k of the log list, by position.
RECURSIVE SumOfFirst(_, _, _)
SumOfFirst(logs, f, k) ==
    IF k = 0 THEN 0 ELSE logs[k][f] + SumOfFirst(logs, f, k - 1)

\* The tips as the claim lists them, for the log list and weather of the
\* current call: each average is total / n over the first n = min(7, len)
\* entries, compared without division.
ClaimedTipList ==
    LET logs == args.recent_logs
        n == IF Len(logs) < 7 THEN Len(logs) ELSE 7
        sleep == SumOfFirst(logs, "sleep_hours", n)
        exercise == SumOfFirst(logs, "exercise_minutes", n)
        water == SumOfFirst(logs, "water_glasses", n)
        hasWeather == args.weather_data # EmptyDict /\ "current" \in DOMAIN args.weather_data
        temp == IF hasWeather /\ "temp" \in DOMAIN args.weather_data.current
                THEN args.weather_data.current.temp ELSE 25
        humidity == IF hasWeather /\ "humidity" \in DOMAIN args.weather_data.current
                    THEN args.weather_data.current.humidity ELSE 50
        sleepTip == IF n = 0 THEN <<"Maintain a regular sleep schedule of 7-9 hours">>
                    ELSE IF sleep < 7 * n THEN <<"Try to get 7-9 hours of sleep nightly">>
                    ELSE IF sleep > 9 * n THEN <<"Consider maintaining a consistent sleep schedule">>
                    ELSE <<>>
        exerciseTip == IF n = 0 THEN <<"Regular exercise is key to maintaining good health">>
                       ELSE IF exercise < 30 * n
                            THEN <<"Aim for at least 30 minutes of physical activity daily">>
                       ELSE <<>>
        hydrationTip == IF n = 0 THEN <<"Proper hydration is essential">>
                        ELSE IF water < 8 * n
                             THEN <<"Stay hydrated by drinking at least 8 glasses of water daily">>
                        ELSE <<>>
        temperatureTip == IF hasWeather /\ temp > 30 THEN <<"High temperatures detected">>
                          ELSE IF hasWeather /\ temp < 15 THEN <<"Cool weather - dress warmly">>
                          ELSE <<>>
        humidityTip == IF hasWeather /\ humidity > 80 THEN <<"High humidity levels">> ELSE <<>>
        filler == << "Include plenty of fruits and vegetables in your diet",
                     "Practice stress management techniques",
                     "Schedule regular health check-ups and screenings" >>
    IN  sleepTip \o exerciseTip \o hydrationTip \o temperatureTip \o humidityTip \o filler

\* Its first 5 elements, or all of them when there are fewer.
ClaimedFirstFive ==
    SubSeq(ClaimedTipList, 1, IF Len(ClaimedTipList) < 5 THEN Len(ClaimedTipList) ELSE 5)

\* C15: get_fallback_health_tips returns the first 5 elements of the
\* concatenation, in this order, of the sleep tip (low-sleep if avg < 7,
\* over-sleep if avg > 9, generic without logs, none for 7 <= avg <= 9), the
\* exercise tip (avg < 30, generic without logs), the hydration tip (avg < 8,
\* generic without logs), the temperature tip (heat if temp > 30, else cold if
\* temp < 15), the humidity tip (humidity > 80, whatever the temperature) and
\* the diet, stress and check-up filler.
C15_FixedOrderFirstFive ==
    (op = "tips") =>
        /\ TipsArgsFallback = ClaimedFirstFive
        /\ (pc = "done" /\ ~openai_client) => result = PyList(ClaimedFirstFive)

\* C15 witness: averages 5 / 10 / 3 with 32 degrees and 85 % humidity gave the
\* five personalized tips and no filler.
C15_Witness ==
    /\ pc = "done" /\ op = "tips" /\ ~openai_client
    /\ args.recent_logs = [i \in 1..3 |-> [sleep_hours |-> 5, exercise_minutes |-> 10, water_glasses |-> 3]]
    /\ args.weather_data = [current |-> [temp |-> 32, humidity |-> 85]]
    /\ result = PyList(<< "Try to get 7-9 hours of sleep nightly",
                          "Aim for at least 30 minutes of physical activity daily",
                          "Stay hydrated by drinking at least 8 glasses of water daily",
                          "High temperatures detected",
                          "High humidity levels" >>)

\* The tips of steps 1-4 (sleep, exercise, hydration, temperature, humidity)
\* that the conditions of the code append before the filler.
PersonalizedTips(recent_logs, weather_data) ==
    SleepTips(recent_logs) \o ExerciseTips(recent_logs) \o HydrationTips(recent_logs)
    \o WeatherTips(weather_data)

\* One of them is missing from the list get_fallback_health_tips returns.
PersonalizedTipDropped(recent_logs, weather_data) ==
    LET fired == PersonalizedTips(recent_logs, weather_data)
        tips == get_fallback_health_tips(SampleUser, SampleProfile, recent_logs, weather_data)
    IN  \E i \in 1..Len(fired) : \A j \in 1..Len(tips) : tips[j] # fired[i]

\* C17 (as claimed): there are inputs to get_fallback_health_tips for which a
\* personalized tip whose condition fired is dropped by the truncation to 5;
\* evaluated over all inputs of the generator once it has been called.
C17_SomePersonalizedTipDropped ==
    (pc = "done" /\ op = "tips" /\ ~openai_client) =>
        \E recent_logs \in LogInputs, weather_data \in TipWeatherInputs :
            PersonalizedTipDropped(recent_logs, weather_data)

\* C17 (amended): at most five personalized tips fire, every one of them is
\* returned, in order, at the head of the list, and the truncation to 5 only
\* removes filler tips.
C17_OnlyFillerTruncated ==
    (op = "tips") =>
        LET fired == PersonalizedTips(args.recent_logs, args.weather_data)
            filler == << "Include plenty of fruits and vegetables in your diet",
                         "Practice stress management techniques",
                         "Schedule regular health check-ups and screenings" >>
            kept == IF Len(fired) <= 2 THEN 3 ELSE 5 - Len(fired)
        IN  /\ Len(fired) <= 5
            /\ ~PersonalizedTipDropped(args.recent_logs, args.weather_data)
            /\ TipsArgsFallback = fired \o SubSeq(filler, 1, kept)
            /\ (pc = "done" /\ ~openai_client) => result = PyList(TipsArgsFallback)

\* C17 witness: five personalized tips fired and the truncation removed the
\* three filler tips, and nothing else.
C17_Witness ==
    /\ pc = "done" /\ op = "tips" /\ ~openai_client
    /\ Len(PersonalizedTips(args.recent_logs, args.weather_data)) = 5
    /\ result = PyList(PersonalizedTips(args.recent_logs, args.weather_data))
    /\ Len(args.recent_logs) = 8

ChatEmptyContent ==
    completion.kind = "content" /\ completion.content \in {PyNone, PyStr("")}

C5_Inv ==
    /\ attempts <= 1
    /\ pc = "request_sent" => (openai_client /\ attempts = 1)
    /\ pc = "done" =>
          /\ attempts = (IF openai_client THEN 1 ELSE 0)
          /\ result \notin {NoResult, PyRaise}

C5_Step ==
    /\ (pc = "idle" /\ pc' # "idle") => attempts' = (IF openai_client THEN 1 ELSE 0)
    /\ pc = "request_sent" => (pc' = "done" /\ attempts' = attempts)

\* C5: an invocation of get_health_tips or chat_with_ai makes exactly one
\* external call when a client is configured and none otherwise; the step
\* that ends the call ends the invocation, whatever came back, with a result.
C5_OneAttempt == [](C5_Inv) /\ [][C5_Step]_vars

\* C5 witness: the one attempt failed and the invocation ended with a result.
C5_Witness ==
    /\ pc = "done" /\ openai_client /\ attempts = 1
    /\ completion.kind = "error"
    /\ result \notin {NoResult, PyRaise}

ChatCategories ==
    << [words |-> SleepWords,
        response |-> "For better sleep, try maintaining a consistent bedtime routine"],
       [words |-> ExerciseWords,
        response |-> "Regular exercise is great for overall health!"],
       [words |-> DietWords,
        response |-> "A balanced diet with plenty of fruits, vegetables, whole grains"],
       [words |-> StressWords,
        response |-> "Managing stress is important for overall health"],
       [words |-> HydrationWords,
        response |-> "Staying hydrated is essential!"] >>

GenericResponse == "I'm here to help with your health and wellness questions!"

CategoryMatches(i, message) ==
    \E word \in ChatCategories[i].words : Contains(Lower(message), word)

\* C8: the canned response is that of the first category, in the order sleep,
\* exercise, diet, stress, hydration, one of whose keywords is a substring of
\* the lowercased message, and the generic one iff no keyword occurs.
C8_FirstCategoryWins ==
    (op = "chat") =>
        LET r == get_fallback_chat_response(args.message) IN
        /\ \A i \in 1..Len(ChatCategories) :
              (r = ChatCategories[i].response)
                 <=> /\ CategoryMatches(i, args.message)
                     /\ \A j \in 1..(i - 1) : ~CategoryMatches(j, args.message)
        /\ (r = GenericResponse)
              <=> \A i \in 1..Len(ChatCategories) : ~CategoryMatches(i, args.message)
        /\ args.message = MsgCantSleep => r = ChatCategories[1].response
        /\ args.message = MsgWorkoutPlan => r = ChatCategories[2].response
        /\ args.message = MsgHello => r = GenericResponse
        /\ (pc = "done" /\ ~openai_client) => result = PyStr(r)

\* C8 witness: a message with an exercise keyword before a sleep keyword was
\* answered with the sleep response.
C8_Witness ==
    /\ pc = "done" /\ op = "chat" /\ ~openai_client
    /\ args.message = MsgWorkoutTired
    /\ result = PyStr(ChatCategories[1].response)

----------------------------------------------------------------------------
(* Properties of the weather functions, checked under SpecWeather *)

AlertOrder ==
    << Alert("warning", "Extreme Heat Alert"),
       Alert("caution", "Heat Advisory"),
       Alert("info", "High Humidity Alert"),
       Alert("warning", "Dehydration Risk"),
       Alert("caution", "High UV Index"),
       Alert("caution", "Air Quality Advisory"),
       Alert("info", "Exercise Adjustment"),
       Alert("info", "Cool Weather Reminder") >>

\* More than 60 minutes of exercise on average over the first three logs at most.
ExerciseAverageAbove60(logs) ==
    CASE Len(logs) = 0 -> FALSE
      [] Len(logs) = 1 -> logs[1].exercise_minutes > 60
      [] Len(logs) = 2 -> logs[1].exercise_minutes + logs[2].exercise_minutes > 120
      [] OTHER -> logs[1].exercise_minutes + logs[2].exercise_minutes
                     + logs[3].exercise_minutes > 180

\* The condition under which the alert of a title fires.
AlertFires(title, temp, humidity, risks, logs) ==
    CASE title = "Extreme Heat Alert" -> temp > 35
      [] title = "Heat Advisory" -> temp > 30 /\ temp <= 35
      [] title = "High Humidity Alert" -> humidity > 85
      [] title = "Dehydration Risk" ->
            "dehydration_risk" \in DOMAIN risks /\ risks.dehydration_risk = "high"
      [] title = "High UV Index" -> "uv_risk" \in DOMAIN risks /\ risks.uv_risk = "high"
      [] title = "Air Quality Advisory" ->
            "air_quality" \in DOMAIN risks /\ risks.air_quality = "poor"
      [] title = "Exercise Adjustment" -> ExerciseAverageAbove60(logs) /\ temp > 30
      [] title = "Cool Weather Reminder" -> temp < 20

\* C6: get_health_alerts returns exactly the alerts whose conditions fire, in
\* the fixed evaluation order, neither deduplicated, reordered nor truncated;
\* temp 36, humidity 90, all risks high/poor and an average of 70 minutes give
\* the six alerts without Heat Advisory.
C6_AlertsInEvaluationOrder ==
    (wcall.fn = "get_health_alerts" /\ "current" \in DOMAIN wcall.weather_data) =>
        LET w == wcall.weather_data
            risks == IF "risk_indicators" \in DOMAIN w THEN w.risk_indicators ELSE EmptyDict
            Fires(a) == AlertFires(a.title, w.current.temp, w.current.humidity, risks,
                                   wcall.recent_logs)
        IN  /\ wresult = SelectSeq(AlertOrder, Fires)
            /\ ( /\ w.current.temp = 36 /\ w.current.humidity = 90
                 /\ risks = [heat_stress |-> "low", uv_risk |-> "high",
                             air_quality |-> "poor", dehydration_risk |-> "high"]
                 /\ wcall.recent_logs = << [exercise_minutes |-> 70],
                                           [exercise_minutes |-> 70],
                                           [exercise_minutes |-> 70] >> )
               => wresult = << Alert("warning", "Extreme Heat Alert"),
                               Alert("info", "High Humidity Alert"),
                               Alert("warning", "Dehydration Risk"),
                               Alert("caution", "High UV Index"),
                               Alert("caution", "Air Quality Advisory"),
                               Alert("info", "Exercise Adjustment") >>

\* C6 witness: the six-alert example was computed.
C6_Witness ==
    /\ wcall.fn = "get_health_alerts"
    /\ wcall.weather_data =
          [ current |-> [temp |-> 36, humidity |-> 90],
            risk_indicators |-> [heat_stress |-> "low", uv_risk |-> "high",
                                 air_quality |-> "poor", dehydration_risk |-> "high"] ]
    /\ wcall.recent_logs = << [exercise_minutes |-> 70], [exercise_minutes |-> 70],
                              [exercise_minutes |-> 70] >>
    /\ Len(wresult) = 6

HasAlert(title) == \E i \in 1..Len(wresult) : wresult[i].title = title

\* C18: the list get_health_alerts returns has pairwise distinct titles and at
\* most 6 alerts; Cool Weather Reminder never comes with Extreme Heat Alert,
\* Heat Advisory or Exercise Adjustment; and when Exercise Adjustment is in
\* the list, its first alert is Extreme Heat Alert or Heat Advisory.
C18_AlertListShape ==
    (wcall.fn = "get_health_alerts") =>
        /\ \A i, j \in 1..Len(wresult) : i # j => wresult[i].title # wresult[j].title
        /\ Len(wresult) <= 6
        /\ HasAlert("Cool Weather Reminder") =>
              /\ ~HasAlert("Extreme Heat Alert")
              /\ ~HasAlert("Heat Advisory")
              /\ ~HasAlert("Exercise Adjustment")
        /\ HasAlert("Exercise Adjustment") =>
              wresult[1].title \in {"Extreme Heat Alert", "Heat Advisory"}

\* C18 witness: a list of six alerts that ends with Exercise Adjustment and
\* starts with Heat Advisory.
C18_Witness ==
    /\ wcall.fn = "get_health_alerts"
    /\ Len(wresult) = 6
    /\ wresult[6].title = "Exercise Adjustment"
    /\ wresult[1].title = "Heat Advisory"

\* The input of calculate_health_risks that carries a snapshot's own current
\* values, its description standing for the weather text.
OwnValuesPayload(snapshot) ==
    [ main |-> [temp |-> snapshot.current.temp * Scale,
                feels_like |-> snapshot.current.feels_like * Scale,
                humidity |-> snapshot.current.humidity],
      weather |-> << [main |-> snapshot.current.description] >> ]

\* C19 (as claimed): each of the four risk_indicators of the mock snapshot
\* equals the level calculate_health_risks computes from the mock's own
\* current values (temp 28, feels_like 32, humidity 75, 'Partly Cloudy').
C19_MockSelfConsistent ==
    (wcall.fn = "get_weather_data" /\ "mock_data" \in DOMAIN wresult) =>
        /\ wresult.current.temp = 28
        /\ wresult.current.feels_like = 32
        /\ wresult.current.humidity = 75
        /\ wresult.risk_indicators = calculate_health_risks(OwnValuesPayload(wresult))

\* A live snapshot was built from a complete provider payload.
LiveSnapshot ==
    /\ wcall.fn = "get_weather_data"
    /\ OPENWEATHER_API_KEY
    /\ wcall.provider.kind = "response"
    /\ wcall.provider.status_code = 200
    /\ wcall.provider.data \in CompletePayloads

\* C7: the four risk levels are fixed by (temp, feels_like, humidity, weather
\* text) through strict thresholds, so that each exact boundary value falls
\* to the lower tier.
C7_RiskThresholds ==
    LiveSnapshot =>
        LET temp == wcall.provider.data.main.temp
            feels_like == wcall.provider.data.main.feels_like
            humidity == wcall.provider.data.main.humidity
            clear == wcall.provider.data.weather[1].main = TextClear
            r == wresult.risk_indicators
        IN  /\ r.heat_stress = "high" <=> feels_like > 35 * Scale
            /\ r.heat_stress = "moderate"
                  <=> (feels_like > 30 * Scale /\ feels_like <= 35 * Scale)
            /\ r.heat_stress = "low" <=> feels_like <= 30 * Scale
            /\ r.uv_risk = "high" <=> (clear /\ temp > 25 * Scale)
            /\ r.uv_risk = "moderate"
                  <=> (~(clear /\ temp > 25 * Scale) /\ temp > 20 * Scale)
            /\ r.uv_risk = "low" <=> temp <= 20 * Scale
            /\ r.air_quality = "poor" <=> humidity > 80
            /\ r.air_quality = "moderate" <=> (humidity > 60 /\ humidity <= 80)
            /\ r.air_quality = "good" <=> humidity <= 60
            /\ r.dehydration_risk = "high"
                  <=> (temp > 32 * Scale \/ (temp > 28 * Scale /\ humidity > 70))
            /\ r.dehydration_risk = "moderate"
                  <=> /\ ~(temp > 32 * Scale \/ (temp > 28 * Scale /\ humidity > 70))
                      /\ temp > 25 * Scale
            /\ r.dehydration_risk = "low" <=> temp <= 25 * Scale
            \* the exact boundary values
            /\ feels_like = 35 * Scale => r.heat_stress = "moderate"
            /\ feels_like = 30 * Scale => r.heat_stress = "low"
            /\ temp = 25 * Scale => (r.uv_risk = "moderate" /\ r.dehydration_risk = "low")
            /\ temp = 20 * Scale => r.uv_risk = "low"
            /\ humidity = 80 => r.air_quality = "moderate"
            /\ humidity = 60 => r.air_quality = "good"
            /\ temp = 32 * Scale => (r.dehydration_risk = "high" <=> humidity > 70)
            /\ temp = 28 * Scale => r.dehydration_risk = "moderate"
            /\ (humidity = 70 /\ temp <= 32 * Scale) => r.dehydration_risk # "high"

\* C7 witness: a payload exactly on the boundaries 35, 25 and 80 was classified.
C7_Witness ==
    /\ LiveSnapshot
    /\ wcall.provider.data.main.feels_like = 35 * Scale
    /\ wcall.provider.data.main.temp = 25 * Scale
    /\ wcall.provider.data.main.humidity = 80
    /\ wcall.provider.data.weather[1].main = TextClear
    /\ wresult.risk_indicators = [heat_stress |-> "moderate", uv_risk |-> "moderate",
                                  air_quality |-> "moderate", dehydration_risk |-> "low"]

\* The fetch could not produce a live snapshot.
WeatherFetchFailed ==
    \/ ~OPENWEATHER_API_KEY
    \/ wcall.provider.kind \in {"exception", "not_json"}
    \/ wcall.provider.status_code # 200
    \/ wcall.provider.data \in MalformedPayloads

\* C9: get_weather_data never raises; without a credential, on a non-200
\* status and on any exception of the fetch or of reading the payload it
\* returns the fixed mock snapshot, flagged mock_data; a live snapshot never
\* carries the flag.
C9_MockOnAnyFailure ==
    (wcall.fn = "get_weather_data") =>
        /\ wresult # PyRaise
        /\ WeatherFetchFailed =>
              /\ "mock_data" \in DOMAIN wresult
              /\ wresult.mock_data = TRUE
              /\ wresult.location = wcall.location
              /\ wresult.current.temp = 28
              /\ wresult.current.humidity = 75
              /\ wresult = get_mock_weather_data(wcall.location)
        /\ ~WeatherFetchFailed => "mock_data" \notin DOMAIN wresult

\* C9 witness: with a credential, a 200 response whose payload lacks a key the
\* code reads was answered with the mock snapshot.
C9_Witness ==
    /\ wcall.fn = "get_weather_data"
    /\ OPENWEATHER_API_KEY
    /\ wcall.provider.kind = "response"
    /\ wcall.provider.status_code = 200
    /\ wcall.provider.data \in MalformedPayloads
    /\ wresult.mock_data = TRUE

----------------------------------------------------------------------------
(* Properties of the lifestyle log, checked under SpecLogs *)

\* GET /lifestyle was answered for a logged-in user.
LifestyleAnswered == request.fn = "get_lifestyle" /\ response.status = 200

\* The limit that request passed to LifestyleLog.get_by_user_id.
RequestedLimit ==
    IF "limit" \in DOMAIN request.query /\ request.query.limit.t = "int"
    THEN request.query.limit.v
    ELSE 30

\* The entries stored for the user of the session.
StoredForSessionUser ==
    IF session.user_id \in DOMAIN lifestyle_logs_db
    THEN lifestyle_logs_db[session.user_id]
    ELSE <<>>

DateDescending(logs) ==
    \A i, j \in 1..Len(logs) : i < j => ~StrLess(logs[i].date, logs[j].date)

\* Every returned entry is stored, none twice, and none is older than a
\* stored entry that was left out.
MostRecentOf(logs, stored) ==
    /\ \A i \in 1..Len(logs) : \E k \in 1..Len(stored) : stored[k] = logs[i]
    /\ \A i, j \in 1..Len(logs) : i # j => logs[i].id # logs[j].id
    /\ \A i \in 1..Len(logs), k \in 1..Len(stored) :
          (\A j \in 1..Len(logs) : logs[j].id # stored[k].id)
              => ~StrLess(logs[i].date, stored[k].date)

\* C10 (as claimed): for every integer limit, 0 and negative ones included,
\* at most limit entries are returned, by date descending, none older than
\* an entry left out.
C10_AtMostLimitEntries ==
    LifestyleAnswered =>
        /\ Len(response.body.logs) <= RequestedLimit
        /\ DateDescending(response.body.logs)
        /\ MostRecentOf(response.body.logs, StoredForSessionUser)

\* C10 (amended): for a positive limit at most limit entries are returned,
\* the most recent ones by date, descending; for a limit of 0 or below all of
\* the user's entries are returned, by date descending.
C10_LimitAppliesWhenPositive ==
    LifestyleAnswered =>
        /\ RequestedLimit > 0 =>
              Len(response.body.logs) = Min(RequestedLimit, Len(StoredForSessionUser))
        /\ RequestedLimit <= 0 =>
              Len(response.body.logs) = Len(StoredForSessionUser)
        /\ DateDescending(response.body.logs)
        /\ MostRecentOf(response.body.logs, StoredForSessionUser)

\* C10 witness: with limit=0 both entries of a user were returned, the one
\* stored second and dated later first.
C10_Witness ==
    /\ LifestyleAnswered
    /\ RequestedLimit = 0
    /\ Len(StoredForSessionUser) = 2
    /\ StrLess(StoredForSessionUser[1].date, StoredForSessionUser[2].date)
    /\ Len(response.body.logs) = 2
    /\ response.body.logs[1] = StoredForSessionUser[2]

\* C11 (as claimed): every stored log entry has sleep_hours >= 0,
\* exercise_minutes >= 0 and water_glasses >= 0, whatever numbers were
\* submitted to POST /log-lifestyle.
C11_StoredMetricsNonNegative ==
    \A u \in DOMAIN lifestyle_logs_db :
        \A i \in 1..Len(lifestyle_logs_db[u]) :
            /\ lifestyle_logs_db[u][i].sleep_hours >= 0
            /\ lifestyle_logs_db[u][i].exercise_minutes >= 0
            /\ lifestyle_logs_db[u][i].water_glasses >= 0

----------------------------------------------------------------------------
(* Properties of the profiles, checked under SpecProfiles *)

\* The profile that a body of PUT /profile stands for: each field is the
\* submitted value or the fixed default of the handler.
ProfileOfRequest(user_id, data) ==
    [ user_id |-> user_id,
      age |-> IF "age" \in DOMAIN data THEN data.age.v ELSE 25,
      gender |-> IF "gender" \in DOMAIN data THEN data.gender ELSE "other",
      location |-> IF "location" \in DOMAIN data THEN data.location ELSE "",
      exercise_frequency |-> IF "exercise_frequency" \in DOMAIN data
                             THEN data.exercise_frequency ELSE "moderate",
      sleep_hours |-> IF "sleep_hours" \in DOMAIN data THEN data.sleep_hours.v ELSE 8,
      diet_type |-> IF "diet_type" \in DOMAIN data THEN data.diet_type ELSE "balanced" ]

\* The profiles are keyed by their user: one profile at most per user, and
\* only for users that exist.
C14_Inv ==
    \A u \in DOMAIN profiles_db : profiles_db[u].user_id = u /\ u \in DOMAIN users_db

\* A PUT /profile that is answered 200 leaves the session user's profile
\* equal to the one the request stands for, and every other profile as it was.
C14_Step ==
    (request = NoCall /\ request'.fn = "update_profile" /\ response'.status = 200)
        => /\ DOMAIN profiles_db' = DOMAIN profiles_db \cup {session.user_id}
           /\ profiles_db'[session.user_id] = ProfileOfRequest(session.user_id, request'.data)
           /\ \A u \in DOMAIN profiles_db : u # session.user_id => profiles_db'[u] = profiles_db[u]

\* C14: there is at most one profile per user, and after PUT /profile every
\* field of the profile is the submitted value or the handler's default,
\* never the value the field held before.
C14_FullReplace == [](C14_Inv) /\ [][C14_Step]_vars

\* C14 witness: the user registered with age 30 in Lagos sent only a location;
\* the age is the default 25 and the other fields are the defaults.
C14_Witness ==
    /\ request # NoCall
    /\ request.fn = "update_profile"
    /\ request.data = [location |-> "Kano"]
    /\ response.status = 200
    /\ session.user_id = 1
    /\ profiles_db[1].age = 25
    /\ profiles_db[1].location = "Kano"
    /\ profiles_db[1].diet_type = "balanced"

----------------------------------------------------------------------------
(* Properties of the payments, checked under SpecPayments *)

\* The payment with reference r is stored with status 'success'.
Succeeded(db, r) == \E p \in AllPayments(db) : p.reference = r /\ p.status = "success"

\* In the step to the next state the gateway reported success for r: it
\* answered the verify call for r with data.status = success, or a
\* charge.success webhook for r came in.
GatewayReportedSuccess(r) ==
    \/ /\ request'.fn = "verify_payment"
       /\ "reference" \in DOMAIN request'.query
       /\ request'.query.reference = r
       /\ request'.gateway.kind = "response"
       /\ request'.gateway.status_code = 200
       /\ HasDataStatus(request'.gateway.json)
       /\ request'.gateway.json.data.status = "success"
    \/ /\ request'.fn = "paystack_webhook"
       /\ "event" \in DOMAIN request'.event_data
       /\ request'.event_data.event = "charge.success"
       /\ request'.event_data.data.reference = r

C20_Step ==
    PAYSTACK_SECRET_KEY =>
        /\ \A p \in AllPayments(payments_db') :
              (p.status = "success" /\ ~Succeeded(payments_db, p.reference))
                  => GatewayReportedSuccess(p.reference)
        /\ \A u \in DOMAIN users_db :
              (users_db'[u].is_premium /\ ~users_db[u].is_premium)
                  => \E p \in AllPayments(payments_db) :
                         p.user_id = u /\ GatewayReportedSuccess(p.reference)

\* C20 (as claimed): with a secret key configured, a payment becomes
\* 'success' and its owner becomes premium only in a step in which the
\* gateway reported success for its reference (a verify response with
\* data.status = success, or a charge.success webhook).
C20_SuccessOnlyFromGateway == [][C20_Step]_vars

----------------------------------------------------------------------------
(* Properties of the whole application, checked under SpecApp *)

\* Every entry stored for a user is still stored for that user, at the same
\* place of the user's sequence and with the same fields.
LogsKept ==
    \A u \in DOMAIN lifestyle_logs_db :
        /\ u \in DOMAIN lifestyle_logs_db'
        /\ Len(lifestyle_logs_db'[u]) >= Len(lifestyle_logs_db[u])
        /\ \A i \in 1..Len(lifestyle_logs_db[u]) :
              lifestyle_logs_db'[u][i] = lifestyle_logs_db[u][i]

C12_Step ==
    /\ LogsKept
    /\ (request'.fn # "log_lifestyle") => lifestyle_logs_db' = lifestyle_logs_db

\* C12: log entries are append-only: every step of every operation keeps
\* each stored entry for the same user with all of its fields, and every
\* operation other than the creation of a log leaves the stored log as it is.
C12_AppendOnly == [][C12_Step]_vars

\* C12 witness: with two entries stored for a user, a profile updated and a
\* payment verified, the tips were computed from the log.
C12_Witness ==
    /\ request # NoCall
    /\ request.fn = "get_tips"
    /\ response.status = 200
    /\ LoggedIn(session)
    /\ session.user_id = 1
    /\ 1 \in DOMAIN lifestyle_logs_db
    /\ Len(lifestyle_logs_db[1]) = 2
    /\ lifestyle_logs_db[1][1].id = 1
    /\ profiles_db[1].location = "Kano"
    /\ Succeeded(payments_db, Reference(1, "a3f19c0e"))

----------------------------------------------------------------------------
(* Properties of concurrent log creation, checked under SpecConcurrentCreate *)

\* All stored log entries, as (user, place) pairs.
StoredPlaces ==
    UNION { { <<u, i>> : i \in 1..Len(lifestyle_logs_db[u]) } : u \in DOMAIN lifestyle_logs_db }

CompletedCalls == { t \in DOMAIN create_calls : create_calls[t].pc = "done" }

\* C13 (as claimed): under any interleaving of concurrent LifestyleLog.create
\* calls, once all calls have completed the store holds exactly one entry
\* per completed call and no two entries share an id.
C13_NoLostUpdate ==
    (create_calls # EmptyDict /\ CompletedCalls = DOMAIN create_calls) =>
        /\ Cardinality(StoredPlaces) = Cardinality(CompletedCalls)
        /\ \A p, q \in StoredPlaces :
              p # q => lifestyle_logs_db[p[1]][p[2]].id # lifestyle_logs_db[q[1]][q[2]].id

----------------------------------------------------------------------------
(* Properties of the rolling averages, checked under SpecRules *)

\* The number of entries the mean of a window of k is taken over.
MeanCount(logs, k) == IF Len(logs) < k THEN Len(logs) ELSE k

\* mean of field f over the first min(k, n) entries < bound, and > bound
MeanBelow(logs, f, k, bound) ==
    SumOfFirst(logs, f, MeanCount(logs, k)) < bound * MeanCount(logs, k)

MeanAbove(logs, f, k, bound) ==
    SumOfFirst(logs, f, MeanCount(logs, k)) > bound * MeanCount(logs, k)

InTips(tip) == \E i \in 1..Len(result.items) : result.items[i] = tip

InAlerts(title) == \E i \in 1..Len(wresult) : wresult[i].title = title

\* C16: the averages of the rule engines are the arithmetic mean over exactly
\* the first min(K, n) entries of the log list (K = 7 for the tips, K = 3 for
\* the alerts), entries after the K-th change nothing, and an empty list is
\* "no data", not an average of zero: the tips are then the generic sleep,
\* activity and hydration tips without any threshold warning.
C16_WindowedMeans ==
    /\ (pc = "done" /\ op = "tips") =>
          LET logs == args.recent_logs IN
          /\ result = PyList(get_fallback_health_tips(args.user, args.profile,
                                 SubSeq(logs, 1, MeanCount(logs, 7)), args.weather_data))
          /\ InTips("Try to get 7-9 hours of sleep nightly")
                <=> (logs # <<>> /\ MeanBelow(logs, "sleep_hours", 7, 7))
          /\ InTips("Consider maintaining a consistent sleep schedule")
                <=> (logs # <<>> /\ MeanAbove(logs, "sleep_hours", 7, 9))
          /\ InTips("Aim for at least 30 minutes of physical activity daily")
                <=> (logs # <<>> /\ MeanBelow(logs, "exercise_minutes", 7, 30))
          /\ InTips("Stay hydrated by drinking at least 8 glasses of water daily")
                <=> (logs # <<>> /\ MeanBelow(logs, "water_glasses", 7, 8))
          /\ InTips("Maintain a regular sleep schedule of 7-9 hours") <=> (logs = <<>>)
          /\ InTips("Regular exercise is key to maintaining good health") <=> (logs = <<>>)
          /\ InTips("Proper hydration is essential") <=> (logs = <<>>)
    /\ (wcall.fn = "get_health_alerts" /\ "current" \in DOMAIN wcall.weather_data) =>
          LET logs == wcall.recent_logs IN
          /\ wresult = get_health_alerts(SampleUser, SampleProfile,
                           SubSeq(logs, 1, MeanCount(logs, 3)), wcall.weather_data)
          /\ InAlerts("Exercise Adjustment")
                <=> /\ logs # <<>>
                    /\ MeanAbove(logs, "exercise_minutes", 3, 60)
                    /\ wcall.weather_data.current.temp > 30

\* C16 witness (tips): eight logs whose first seven average 60/7 hours of
\* sleep, followed by a 10-hour entry that would lift a mean over all eight
\* to 70/8 but a total over all eight divided by 7 above 9.
C16_Witness ==
    /\ pc = "done" /\ op = "tips"
    /\ Len(args.recent_logs) = 8
    /\ SumOfFirst(args.recent_logs, "sleep_hours", 7) = 60
    /\ args.recent_logs[8].sleep_hours = 10
    /\ ~InTips("Consider maintaining a consistent sleep schedule")
    /\ ~InTips("Try to get 7-9 hours of sleep nightly")

\* C21 (as claimed): in every state reached by initialize-payment,
\* verify-payment and webhook operations, every user with is_premium = true
\* owns at least one payment whose status is 'success'.
C21_PremiumOwnsSuccessPayment ==
    \A u \in DOMAIN users_db :
        users_db[u].is_premium =>
            /\ u \in DOMAIN payments_db
            /\ \E i \in 1..Len(payments_db[u]) : payments_db[u][i].status = "success"

----------------------------------------------------------------------------
(* Properties of registration and of require_login, checked under SpecAuth *)

\* C22 (as claimed): a POST /register that is answered 400 or 500 leaves
\* users_db, profiles_db and the session as they were, so that the same email
\* can still be registered by a later valid request.
C22_Step ==
    (request = NoCall /\ request'.fn = "register" /\ response'.status \in {400, 500})
        => /\ users_db' = users_db
           /\ profiles_db' = profiles_db
           /\ session' = session
           /\ User_get_by_email(users_db', request'.data.email) =
                  User_get_by_email(users_db, request'.data.email)

C22_FailedRegisterChangesNothing == [][C22_Step]_vars

\* The handlers wrapped by require_login, by the name their request carries.
ProtectedHandlers ==
    { "get_profile", "update_profile", "log_lifestyle", "get_lifestyle",
      "get_lifestyle_chart_data", "get_tips", "chat", "weather", "alerts",
      "initialize_payment", "verify_payment", "page" }

\* C23: a handler behind require_login that is called without user_id in the
\* session answers 401 and changes no store; logout leaves a session without
\* user_id; and a session without user_id gets one only by a successful login
\* or register, so every protected request in between is answered 401.
C23_Step ==
    /\ (request = NoCall /\ request'.fn \in ProtectedHandlers /\ ~LoggedIn(session))
          => /\ response' = Unauthenticated
             /\ UNCHANGED <<users_db, user_id_counter, profiles_db, lifestyle_logs_db,
                            log_id_counter, payments_db, payment_id_counter, session>>
    /\ (request = NoCall /\ request'.fn = "logout") => ~LoggedIn(session')
    /\ (~LoggedIn(session) /\ LoggedIn(session'))
          => /\ request = NoCall
             /\ \/ request'.fn = "login" /\ response'.status = 200
                \/ request'.fn = "register" /\ response'.status = 201

C23_LoginRequired == [][C23_Step]_vars

\* C23 witness: a user registered (which logged them in) and has a profile,
\* the session has lost its user_id since, and a payment request was answered
\* 401 with nothing stored.
C23_Witness ==
    /\ profiles_db # EmptyDict
    /\ ~LoggedIn(session)
    /\ request.fn = "initialize_payment"
    /\ response = Unauthenticated
    /\ payments_db = EmptyDict

====
